---- MODULE Spec2Model ----
(***************************************************************************)
(* ProduSum-AI: the streaming-generation orchestration and caching layer.  *)
(*                                                                         *)
(* Text supplied by the client or by the provider (form fields, deltas,    *)
(* exception messages, cache keys) is a sequence of one-character strings, *)
(* so that the regular expressions, the substring tests and the key        *)
(* concatenation act on characters as the Python code does.  Literal       *)
(* status messages of the program are TLA+ strings.                        *)
(***************************************************************************)
EXTENDS Integers, Sequences, FiniteSets, TLC

VARIABLES
    config,        \* AppConfig feature flags and whether OPENAI_API_KEY is set
    now,           \* time.time()
    ticks,         \* number of clock advances so far
    cache,         \* SimpleCache.cache: key -> [value, expires_at]
    usage_stats,   \* ai_service.usage_stats
    sessions,      \* Socket.IO session id -> "new" | "connected" | "disconnected"
    inbox,         \* the events each session has received
    jobs,          \* handler invocations (with their image thread), in submission order
    tasks,         \* counter study: threads updating usage_stats
    cthreads,      \* cache study: threads inside SimpleCache.get / set
    cops,          \* cache study: log of completed whole cache operations
    calls,         \* function study: log of calls of a function with what they returned or stored
    stream         \* stream study: one run of the chunk loop of generate_product_description

\* the variables of the shared-state studies
study == <<tasks, cthreads, cops, calls, stream>>

vars == <<config, now, ticks, cache, usage_stats, sessions, inbox, jobs, tasks, cthreads, cops, calls, stream>>

(***************************************************************************)
(* Character-sequence literals of the source.                              *)
(***************************************************************************)
\* "BQ" stands for the backquote character, which a TLA+ string cannot hold
FENCE == <<"BQ", "BQ", "BQ">>

\* the role prefixes sanitize_prompt_input removes
ROLE_PREFIXES ==
    <<<<"s", "y", "s", "t", "e", "m", ":">>,
      <<"u", "s", "e", "r", ":">>,
      <<"a", "s", "s", "i", "s", "t", "a", "n", "t", ":">>>>

IGNORE_PHRASE ==
    <<"i", "g", "n", "o", "r", "e", " ", "p", "r", "e", "v", "i", "o", "u", "s", " ", "i", "n", "s", "t", "r", "u", "c", "t", "i", "o", "n", "s">>

\* the keyword names of the two calls of cache.create_key
KeyNames ==
    [product_name |-> <<"p", "r", "o", "d", "u", "c", "t", "_", "n", "a", "m", "e">>,
     product_details |->
        <<"p", "r", "o", "d", "u", "c", "t", "_", "d", "e", "t", "a", "i", "l", "s">>,
     language |-> <<"l", "a", "n", "g", "u", "a", "g", "e">>,
     tone |-> <<"t", "o", "n", "e">>,
     keywords |-> <<"k", "e", "y", "w", "o", "r", "d", "s">>,
     audience |-> <<"a", "u", "d", "i", "e", "n", "c", "e">>,
     platform |-> <<"p", "l", "a", "t", "f", "o", "r", "m">>,
     usps |-> <<"u", "s", "p", "s">>,
     cta_style |-> <<"c", "t", "a", "_", "s", "t", "y", "l", "e">>,
     viral_flag |-> <<"v", "i", "r", "a", "l", "_", "f", "l", "a", "g">>,
     extra_instructions |->
        <<"e", "x", "t", "r", "a", "_", "i", "n", "s", "t", "r", "u", "c", "t", "i", "o", "n", "s">>,
     model |-> <<"m", "o", "d", "e", "l">>,
     size |-> <<"s", "i", "z", "e">>,
     quality |-> <<"q", "u", "a", "l", "i", "t", "y">>]

\* the namespaces of the two calls of cache.create_key
Namespaces ==
    [product_description |->
        <<"p", "r", "o", "d", "u", "c", "t", "_", "d", "e", "s", "c", "r", "i", "p", "t", "i", "o", "n">>,
     product_image |-> <<"p", "r", "o", "d", "u", "c", "t", "_", "i", "m", "a", "g", "e">>]

\* the default of language
STR_English == <<"E", "n", "g", "l", "i", "s", "h">>

\* AppConfig.DEFAULT_MODEL, AppConfig.DEFAULT_IMAGE_MODEL, the defaults of size and quality
DEFAULT_MODEL == <<"g", "p", "t", "-", "4", "o">>
DEFAULT_IMAGE_MODEL == <<"d", "a", "l", "l", "-", "e", "-", "3">>
DEFAULT_SIZE == <<"1", "0", "2", "4", "x", "1", "0", "2", "4">>
DEFAULT_QUALITY == <<"s", "t", "a", "n", "d", "a", "r", "d">>

\* the substrings handle_openai_error looks for
ErrorPatterns ==
    [apiconnectionerror |->
        <<"a", "p", "i", "c", "o", "n", "n", "e", "c", "t", "i", "o", "n", "e", "r", "r", "o", "r">>,
     connection |-> <<"c", "o", "n", "n", "e", "c", "t", "i", "o", "n">>,
     ratecreaterequesterror |->
        <<"r", "a", "t", "e", "c", "r", "e", "a", "t", "e", "r", "e", "q", "u", "e", "s", "t", "e", "r", "r", "o", "r">>,
     rate_limit_us |-> <<"r", "a", "t", "e", "_", "l", "i", "m", "i", "t">>,
     rate_limit |-> <<"r", "a", "t", "e", " ", "l", "i", "m", "i", "t">>,
     too_many_requests |->
        <<"t", "o", "o", " ", "m", "a", "n", "y", " ", "r", "e", "q", "u", "e", "s", "t", "s">>,
     authenticationerror |->
        <<"a", "u", "t", "h", "e", "n", "t", "i", "c", "a", "t", "i", "o", "n", "e", "r", "r", "o", "r">>,
     authentication |-> <<"a", "u", "t", "h", "e", "n", "t", "i", "c", "a", "t", "i", "o", "n">>,
     auth |-> <<"a", "u", "t", "h">>,
     unauthorized |-> <<"u", "n", "a", "u", "t", "h", "o", "r", "i", "z", "e", "d">>,
     invalid_api_key |->
        <<"i", "n", "v", "a", "l", "i", "d", " ", "a", "p", "i", " ", "k", "e", "y">>,
     insufficientquota |->
        <<"i", "n", "s", "u", "f", "f", "i", "c", "i", "e", "n", "t", "q", "u", "o", "t", "a">>,
     quota |-> <<"q", "u", "o", "t", "a">>,
     billing |-> <<"b", "i", "l", "l", "i", "n", "g">>,
     invalidrequesterror |->
        <<"i", "n", "v", "a", "l", "i", "d", "r", "e", "q", "u", "e", "s", "t", "e", "r", "r", "o", "r">>,
     invalid_request |->
        <<"i", "n", "v", "a", "l", "i", "d", "_", "r", "e", "q", "u", "e", "s", "t">>,
     bad_request |-> <<"b", "a", "d", " ", "r", "e", "q", "u", "e", "s", "t">>,
     validation |-> <<"v", "a", "l", "i", "d", "a", "t", "i", "o", "n">>,
     apierror |-> <<"a", "p", "i", "e", "r", "r", "o", "r">>,
     model |-> <<"m", "o", "d", "e", "l">>,
     not_found |-> <<"n", "o", "t", " ", "f", "o", "u", "n", "d">>,
     unavailable |-> <<"u", "n", "a", "v", "a", "i", "l", "a", "b", "l", "e">>,
     contentfilterror |->
        <<"c", "o", "n", "t", "e", "n", "t", "f", "i", "l", "t", "e", "r", "r", "o", "r">>,
     content_filter_us |-> <<"c", "o", "n", "t", "e", "n", "t", "_", "f", "i", "l", "t", "e", "r">>,
     content_filter |-> <<"c", "o", "n", "t", "e", "n", "t", " ", "f", "i", "l", "t", "e", "r">>,
     policy |-> <<"p", "o", "l", "i", "c", "y">>,
     safety |-> <<"s", "a", "f", "e", "t", "y">>,
     timeout |-> <<"t", "i", "m", "e", "o", "u", "t">>,
     timed_out |-> <<"t", "i", "m", "e", "d", " ", "o", "u", "t">>]


(***************************************************************************)
(* Python str primitives.                                                  *)
(***************************************************************************)
UpperChars == <<"A","B","C","D","E","F","G","H","I","J","K","L","M","N","O","P","Q","R","S","T","U","V","W","X","Y","Z">>
LowerChars == <<"a","b","c","d","e","f","g","h","i","j","k","l","m","n","o","p","q","r","s","t","u","v","w","x","y","z">>

\* The characters of the model in ASCII order (str comparison in sorted()).
AsciiChars == <<"\t", "\n", "\r", " ", "-", "0", "1", "2", "3", "4", "5", "6", "7", "8", "9", ":", ";", "=">>
              \o UpperChars \o <<"_", "BQ">> \o LowerChars

Ord(c) == CHOOSE i \in 1..Len(AsciiChars) : AsciiChars[i] = c

\* str.lower() on one character
LowerChar(c) == IF \E i \in 1..26 : UpperChars[i] = c
                THEN LowerChars[CHOOSE i \in 1..26 : UpperChars[i] = c]
                ELSE c

\* str.lower()
Lower(s) == <<>> \o [i \in 1..Len(s) |-> LowerChar(s[i])]

\* the whitespace class of \s and of str.strip()
IsSpace(c) == c \in {" ", "\n", "\t", "\r"}

\* s[i:].startswith(p)
StartsWithAt(s, i, p) ==
    /\ i >= 1
    /\ i + Len(p) - 1 <= Len(s)
    /\ \A k \in 1..Len(p) : s[i + k - 1] = p[k]

\* s.find(p, i) as a 1-based index, 0 when absent
FindFrom(s, i, p) ==
    IF \E j \in i..Len(s) : StartsWithAt(s, j, p)
    THEN CHOOSE j \in i..Len(s) :
            /\ StartsWithAt(s, j, p)
            /\ \A k \in i..(j - 1) : ~StartsWithAt(s, k, p)
    ELSE 0

\* p in s
Contains(s, p) == \E j \in 1..(Len(s) + 1) : StartsWithAt(s, j, p)

\* str.strip()
Strip(s) ==
    IF \A i \in 1..Len(s) : IsSpace(s[i])
    THEN <<>>
    ELSE LET a == CHOOSE i \in 1..Len(s) :
                      ~IsSpace(s[i]) /\ \A k \in 1..(i - 1) : IsSpace(s[k])
             b == CHOOSE i \in 1..Len(s) :
                      ~IsSpace(s[i]) /\ \A k \in (i + 1)..Len(s) : IsSpace(s[k])
         IN  SubSeq(s, a, b)

\* Python truthiness of a str
Truthy(s) == Len(s) > 0

\* dict.get(k, default)
Get(d, k, default) == IF k \in DOMAIN d THEN d[k] ELSE default

(***************************************************************************)
(* Python float arithmetic (IEEE 754 binary64, round to nearest, ties to   *)
(* even) on positive values.  A float is [m, e]: m the 53 bits of the      *)
(* significand, first bit 1, and e the power of two of the first bit.      *)
(***************************************************************************)
\* the float nearest to the value with significand bits kept, then guard, then a
\* nonzero rest exactly when sticky
RoundNearestEven(kept, guard, sticky, e) ==
    IF guard = 1 /\ (sticky \/ kept[Len(kept)] = 1)
    THEN IF \A i \in 1..Len(kept) : kept[i] = 1
         THEN [m |-> <<1>> \o [i \in 1..(Len(kept) - 1) |-> 0], e |-> e + 1]
         ELSE LET k == CHOOSE k \in 1..Len(kept) :
                           kept[k] = 0 /\ \A j \in (k + 1)..Len(kept) : kept[j] = 1
              IN  [m |-> <<>> \o [i \in 1..Len(kept) |->
                                      IF i < k THEN kept[i] ELSE IF i = k THEN 1 ELSE 0],
                   e |-> e]
    ELSE [m |-> kept, e |-> e]

\* a / b for ints 1 <= a, b < 1024: long division to 53 bits, a guard bit and the rest
FloatDiv(a, b) ==
    LET e == CHOOSE x \in (0 - 12)..12 :
                 IF x >= 0 THEN b * 2^x <= a /\ a < b * 2^(x + 1)
                 ELSE b <= a * 2^(0 - x) /\ a * 2^(0 - x) < 2 * b
        num == IF e >= 0 THEN a ELSE a * 2^(0 - e)
        den == IF e >= 0 THEN b * 2^e ELSE b
        rem[i \in 0..53] == IF i = 0 THEN num - den ELSE (2 * rem[i - 1]) % den
        digits == <<>> \o [i \in 1..53 |-> IF 2 * rem[i - 1] >= den THEN 1 ELSE 0]
    IN  RoundNearestEven(<<1>> \o SubSeq(digits, 1, 52), digits[53], rem[53] # 0, e)

\* x * c for a float x and an int 1 <= c < 128 (c is exact as a float): the exact
\* product of the significand by c, rounded to 53 bits
FloatMulInt(x, c) ==
    LET n == Len(x.m)
        bit(i) == IF i <= n THEN x.m[n + 1 - i] ELSE 0
        carry[i \in 0..(n + 7)] == IF i = 0 THEN 0 ELSE (bit(i) * c + carry[i - 1]) \div 2
        low == <<>> \o [i \in 1..(n + 7) |-> (bit(i) * c + carry[i - 1]) % 2]
        len == CHOOSE i \in 1..(n + 7) : low[i] = 1 /\ \A j \in (i + 1)..(n + 7) : low[j] = 0
        product == <<>> \o [i \in 1..len |-> low[len + 1 - i]]
    IN  RoundNearestEven(SubSeq(product, 1, n),
                         IF len > n THEN product[n + 1] ELSE 0,
                         \E i \in (n + 2)..len : product[i] = 1,
                         x.e + len - n)

\* int(x) for a float 0 < x < 2^30
FloatInt(x) ==
    LET value[i \in 0..53] == IF i = 0 THEN 0 ELSE 2 * value[i - 1] + x.m[i]
    IN  IF x.e < 0 THEN 0 ELSE value[x.e + 1]

(***************************************************************************)
(* utils/validation.py: sanitize_prompt_input                              *)
(***************************************************************************)
\* re.sub of a fenced code block (three backquotes, .*?, three backquotes) with DOTALL:
\* leftmost match, shortest body
RECURSIVE RemoveCodeBlocks(_, _)
RemoveCodeBlocks(s, i) ==
    IF i > Len(s) THEN <<>>
    ELSE IF StartsWithAt(s, i, FENCE) /\ FindFrom(s, i + 3, FENCE) # 0
         THEN RemoveCodeBlocks(s, FindFrom(s, i + 3, FENCE) + 3)
         ELSE <<s[i]>> \o RemoveCodeBlocks(s, i + 1)

\* the first alternative of pats that matches at i ignoring case, 0 when none
MatchAt(low, i, pats) ==
    IF \E n \in 1..Len(pats) : StartsWithAt(low, i, pats[n])
    THEN CHOOSE n \in 1..Len(pats) :
            /\ StartsWithAt(low, i, pats[n])
            /\ \A m \in 1..(n - 1) : ~StartsWithAt(low, i, pats[m])
    ELSE 0

\* re.sub(r'(p1|p2|...)', '', text, flags=re.IGNORECASE): one left-to-right pass
RECURSIVE RemovePatterns(_, _, _, _)
RemovePatterns(s, low, i, pats) ==
    IF i > Len(s) THEN <<>>
    ELSE IF MatchAt(low, i, pats) # 0
         THEN RemovePatterns(s, low, i + Len(pats[MatchAt(low, i, pats)]), pats)
         ELSE <<s[i]>> \o RemovePatterns(s, low, i + 1, pats)

\* re.sub of an alternation of literal words with IGNORECASE
RemoveWords(s, pats) == RemovePatterns(s, Lower(s), 1, pats)

\* re.sub(r'\s+', ' ', text)
RECURSIVE CollapseWhitespace(_, _)
CollapseWhitespace(s, i) ==
    IF i > Len(s) THEN <<>>
    ELSE IF IsSpace(s[i])
         THEN IF i > 1 /\ IsSpace(s[i - 1])
              THEN CollapseWhitespace(s, i + 1)
              ELSE <<" ">> \o CollapseWhitespace(s, i + 1)
         ELSE <<s[i]>> \o CollapseWhitespace(s, i + 1)

sanitize_prompt_input(text) ==
    IF ~Truthy(text) THEN <<>>
    ELSE Strip(CollapseWhitespace(
             RemoveWords(RemoveWords(RemoveCodeBlocks(text, 1), ROLE_PREFIXES),
                         <<IGNORE_PHRASE>>), 1))

(***************************************************************************)
(* utils/validation.py: validators                                         *)
(***************************************************************************)
MAX_PRODUCT_NAME == 100
MAX_PRODUCT_DETAILS == 1000
MAX_KEYWORDS == 200
MAX_EXTRA_INSTRUCTIONS == 500

\* each validator returns <<valid, message>>
validate_product_name(name) ==
    IF ~Truthy(name) \/ ~Truthy(Strip(name))
    THEN <<FALSE, "Product name is required">>
    ELSE IF Len(name) > MAX_PRODUCT_NAME
         THEN <<FALSE, "Product name must be under 100 characters">>
         ELSE <<TRUE, "">>

validate_product_details(details) ==
    IF Len(details) > MAX_PRODUCT_DETAILS
    THEN <<FALSE, "Product details must be under 1000 characters">>
    ELSE <<TRUE, "">>

validate_keywords(keywords) ==
    IF Len(keywords) > MAX_KEYWORDS
    THEN <<FALSE, "Keywords must be under 200 characters">>
    ELSE <<TRUE, "">>

validate_extra_instructions(instructions) ==
    IF Len(instructions) > MAX_EXTRA_INSTRUCTIONS
    THEN <<FALSE, "Extra instructions must be under 500 characters">>
    ELSE <<TRUE, "">>

\* the result of the validator the loop of validate_form_data runs for a field
OptionalValidator(field, value) ==
    CASE field = "product_details" -> validate_product_details(value)
      [] field = "keywords" -> validate_keywords(value)
      [] field = "extra_instructions" -> validate_extra_instructions(value)

\* the fields of the form in the order validate_form_data visits them
ValidatedFields == <<"product_name", "product_details", "keywords", "extra_instructions">>

\* whether validate_form_data records an error for the field
FieldFails(data, field) ==
    IF field = "product_name"
    THEN ~validate_product_name(Get(data, "product_name", <<>>))[1]
    ELSE /\ field \in DOMAIN data
         /\ Truthy(data[field])
         /\ ~OptionalValidator(field, data[field])[1]

FieldMessage(data, field) ==
    IF field = "product_name"
    THEN validate_product_name(Get(data, "product_name", <<>>))[2]
    ELSE OptionalValidator(field, data[field])[2]

\* variant: the validation stops at the first field that fails
form_errors_first(data) ==
    LET failing == {i \in 1..Len(ValidatedFields) : FieldFails(data, ValidatedFields[i])}
        first == {i \in failing : \A k \in failing : i <= k}
    IN  [f \in {ValidatedFields[i] : i \in first} |-> FieldMessage(data, f)]

\* the errors dict of validate_form_data
form_errors(data) ==
    [f \in {g \in {"product_name", "product_details", "keywords", "extra_instructions"} :
                FieldFails(data, g)} |-> FieldMessage(data, f)]

\* validate_form_data returns <<is_valid, errors>>
validate_form_data(data) ==
    <<DOMAIN form_errors(data) = {}, form_errors(data)>>

\* '; '.join(errors.values()): the messages in insertion order
RECURSIVE JoinErrors(_, _, _)
JoinErrors(errors, i, first) ==
    IF i > Len(ValidatedFields) THEN ""
    ELSE IF ValidatedFields[i] \in DOMAIN errors
         THEN (IF first THEN "" ELSE "; ") \o errors[ValidatedFields[i]]
              \o JoinErrors(errors, i + 1, FALSE)
         ELSE JoinErrors(errors, i + 1, first)

(***************************************************************************)
(* utils/cache.py: create_key                                              *)
(***************************************************************************)
\* a < b for str
RECURSIVE StrLess(_, _, _)
StrLess(a, b, i) ==
    IF i > Len(b) THEN FALSE
    ELSE IF i > Len(a) THEN TRUE
    ELSE IF a[i] = b[i] THEN StrLess(a, b, i + 1)
    ELSE Ord(a[i]) < Ord(b[i])

\* sorted(kwargs.items()): kwargs is a sequence of <<name, str(value)>> in call order
RECURSIVE SortedItems(_)
SortedItems(kwargs) ==
    IF Len(kwargs) = 0 THEN <<>>
    ELSE LET m == CHOOSE i \in 1..Len(kwargs) :
                      \A k \in 1..Len(kwargs) :
                          k = i \/ StrLess(kwargs[i][1], kwargs[k][1], 1)
                            \/ (kwargs[i][1] = kwargs[k][1] /\ i < k)
             rest == <<>> \o [k \in 1..(Len(kwargs) - 1) |->
                                   IF k < m THEN kwargs[k] ELSE kwargs[k + 1]]
         IN  <<kwargs[m]>> \o SortedItems(rest)

\* ":".join(parts)
RECURSIVE JoinColon(_, _)
JoinColon(parts, i) ==
    IF i > Len(parts) THEN <<>>
    ELSE IF i = Len(parts) THEN parts[i]
    ELSE parts[i] \o <<":">> \o JoinColon(parts, i + 1)

\* variant: the keyword arguments are joined in the order they were written
create_key_call_order(ns, kwargs) ==
    LET parts == <<ns>> \o [i \in 1..Len(kwargs) |-> kwargs[i][1] \o <<"=">> \o kwargs[i][2]]
    IN  JoinColon(parts, 1)

\* cache.create_key(ns, **kwargs)
create_key(ns, kwargs) ==
    LET items == SortedItems(kwargs)
        parts == <<ns>> \o [i \in 1..Len(items) |-> items[i][1] \o <<"=">> \o items[i][2]]
    IN  JoinColon(parts, 1)

\* str(bool)
StrBool(b) == IF b THEN <<"T", "r", "u", "e">> ELSE <<"F", "a", "l", "s", "e">>

(***************************************************************************)
(* utils/error_handler.py: handle_openai_error                             *)
(* An exception is [type_name, text]: type(e).__name__ and str(e).         *)
(***************************************************************************)
\* the error kind chosen by the if/elif chain
ErrorKind(e) ==
    LET error_str == Lower(e.text)
        error_type == e.type_name
    IN  IF Contains(error_type, ErrorPatterns.apiconnectionerror) THEN "connection_error"
        ELSE IF Contains(error_type, ErrorPatterns.apiconnectionerror) \/ Contains(error_str, ErrorPatterns.connection)
             THEN "connection_error"
        ELSE IF \/ Contains(error_type, ErrorPatterns.ratecreaterequesterror)
                \/ Contains(error_str, ErrorPatterns.rate_limit_us)
                \/ Contains(error_str, ErrorPatterns.rate_limit)
                \/ Contains(error_str, ErrorPatterns.too_many_requests)
             THEN "rate_limit"
        ELSE IF \/ Contains(error_type, ErrorPatterns.authenticationerror)
                \/ Contains(error_str, ErrorPatterns.authentication)
                \/ Contains(error_str, ErrorPatterns.auth)
                \/ Contains(error_str, ErrorPatterns.unauthorized)
                \/ Contains(error_str, ErrorPatterns.invalid_api_key)
             THEN "authentication"
        ELSE IF \/ Contains(error_type, ErrorPatterns.insufficientquota)
                \/ Contains(error_str, ErrorPatterns.quota)
                \/ Contains(error_str, ErrorPatterns.billing)
             THEN "quota_exceeded"
        ELSE IF \/ Contains(error_type, ErrorPatterns.invalidrequesterror)
                \/ Contains(error_str, ErrorPatterns.invalid_request)
                \/ Contains(error_str, ErrorPatterns.bad_request)
                \/ Contains(error_str, ErrorPatterns.validation)
             THEN "invalid_request"
        ELSE IF /\ Contains(error_type, ErrorPatterns.apierror)
                /\ \/ Contains(error_str, ErrorPatterns.model)
                   \/ Contains(error_str, ErrorPatterns.not_found)
                   \/ Contains(error_str, ErrorPatterns.unavailable)
             THEN "model_error"
        ELSE IF \/ Contains(error_type, ErrorPatterns.contentfilterror)
                \/ Contains(error_str, ErrorPatterns.content_filter_us)
                \/ Contains(error_str, ErrorPatterns.content_filter)
                \/ Contains(error_str, ErrorPatterns.policy)
                \/ Contains(error_str, ErrorPatterns.safety)
             THEN "content_filter"
        ELSE IF Contains(error_str, ErrorPatterns.timeout) \/ Contains(error_str, ErrorPatterns.timed_out)
             THEN "timeout"
        ELSE "unknown"

\* the user message of each kind
ErrorMessage(kind) ==
    CASE kind = "connection_error" ->
            "Could not connect to the OpenAI API. Please check your internet connection."
      [] kind = "rate_limit" -> "API rate limit exceeded. Please try again in a few minutes."
      [] kind = "authentication" -> "Authentication error. Please check your OpenAI API key."
      [] kind = "quota_exceeded" ->
            "Your OpenAI API quota has been exceeded. Please check your billing details."
      [] kind = "invalid_request" -> "Invalid request. Please check your inputs and try again."
      [] kind = "model_error" -> "The requested AI model is currently unavailable."
      [] kind = "content_filter" ->
            "Your request was flagged by content filters. Please modify your content and try again."
      [] kind = "timeout" -> "The request timed out. Please try again with simpler inputs."
      [] OTHER -> "An error occurred with the AI service. Please try again later."

\* handle_openai_error returns <<message, error_details>>
handle_openai_error(e) ==
    <<ErrorMessage(ErrorKind(e)),
      [original_error |-> e.text, error_type_name |-> e.type_name, error_type |-> ErrorKind(e)]>>

(***************************************************************************)
(* utils/cache.py: SimpleCache as whole operations                         *)
(***************************************************************************)
\* Python's None: a value that is no str of the model (its one element is no character)
None == <<"None">>

default_expiry == 3600

\* the truth value Python gives an Optional[str] in "if cached_result:"
PyTruthy(v) == v # None /\ Len(v) > 0

\* entry["expires_at"] < time.time()
Expired(entry, t) == entry.expires_at < t

\* what SimpleCache.get returns
cache_get_result(c, key, t) ==
    IF key \notin DOMAIN c THEN None
    ELSE IF Expired(c[key], t) THEN None
    ELSE c[key].value

\* del self.cache[key]
cache_delete(c, key) == [k \in DOMAIN c \ {key} |-> c[k]]

\* the dict after SimpleCache.get: an expired entry is removed
cache_after_get(c, key, t) ==
    IF key \in DOMAIN c /\ Expired(c[key], t) THEN cache_delete(c, key) ELSE c

\* the dict after SimpleCache.set with the default expiry
cache_set(c, key, value, t) ==
    [k \in DOMAIN c \cup {key} |->
        IF k = key THEN [value |-> value, expires_at |-> t + default_expiry] ELSE c[k]]


(***************************************************************************)
(* Bounds and inputs of the model.                                         *)
(***************************************************************************)
MaxJobs == 2
MaxTicks == 1
MaxChunks == 1
MaxDeltas == 301
MaxEmpty == 2

Sessions == {"s1", "s2"}
SessionOrder == [s \in Sessions |-> IF s = "s1" THEN 1 ELSE 2]

\* by how much one advance of the clock moves time.time()
TickSteps == {default_expiry + 1}

Mug == <<"M", "u", "g">>
MugSpaced == <<" ", "M", "u", "g", " ", " ">>
OnlyRole == <<"u", "s", "e", "r", ":">>

\* the data payloads of start_generation the clients send
GenInputs ==
    LET Blank == <<" ">>
        LongName == <<>> \o [i \in 1..(MAX_PRODUCT_NAME + 1) |-> "a"]
        LongDetails == <<>> \o [i \in 1..(MAX_PRODUCT_DETAILS + 1) |-> "d"]
    IN
    { [product_name |-> Mug, generate_image |-> FALSE],
      [product_name |-> Mug, generate_image |-> TRUE],
      [product_name |-> MugSpaced, language |-> STR_English, generate_image |-> FALSE],
      [product_name |-> OnlyRole, generate_image |-> TRUE],
      [product_name |-> <<>>, generate_image |-> TRUE],
      [product_name |-> Blank, product_details |-> LongDetails, generate_image |-> TRUE],
      [product_name |-> LongName, keywords |-> <<>>, generate_image |-> FALSE] }

\* the data payloads of regenerate_image the clients send
RegenInputs ==
    { [product_name |-> Mug], [product_name |-> MugSpaced], [product_name |-> OnlyRole] }

\* the content deltas a provider chunk may carry (extract_stream_content)
Deltas == { <<>>, <<"o", "k">> }

\* exceptions the provider calls may raise
RateLimitError ==
    [type_name |-> <<"R", "a", "t", "e", "L", "i", "m", "i", "t", "E", "r", "r", "o", "r">>,
     text |-> <<"R", "a", "t", "e", " ", "l", "i", "m", "i", "t", " ", "r", "e", "a", "c", "h", "e", "d">>]
\* get_image_url on a response without data
IndexError ==
    [type_name |-> <<"I", "n", "d", "e", "x", "E", "r", "r", "o", "r">>,
     text |-> <<"l", "i", "s", "t", " ", "i", "n", "d", "e", "x", " ", "o", "u", "t", " ", "o", "f", " ",
                "r", "a", "n", "g", "e">>]

ChatExceptions == {RateLimitError}
ImageExceptions == {IndexError}

\* the URLs the image endpoint may return
Urls == { <<"u", "1">>, <<"u", "2">> }

(***************************************************************************)
(* utils/ai_service.py: generate_product_description, the pure parts       *)
(***************************************************************************)
\* the keyword arguments of cache.create_key("product_description", ...), in call order
TextKeyArgs(data, model) ==
    << <<KeyNames.product_name, sanitize_prompt_input(Get(data, "product_name", <<>>))>>,
       <<KeyNames.product_details, sanitize_prompt_input(Get(data, "product_details", <<>>))>>,
       <<KeyNames.language, sanitize_prompt_input(Get(data, "language", STR_English))>>,
       <<KeyNames.tone, sanitize_prompt_input(Get(data, "tone", <<"P", "r", "o", "f", "e", "s", "s", "i", "o", "n", "a", "l">>))>>,
       <<KeyNames.keywords, sanitize_prompt_input(Get(data, "keywords", <<>>))>>,
       <<KeyNames.audience, sanitize_prompt_input(Get(data, "audience", <<>>))>>,
       <<KeyNames.platform, sanitize_prompt_input(Get(data, "platform", <<>>))>>,
       <<KeyNames.usps, sanitize_prompt_input(Get(data, "usps", <<>>))>>,
       <<KeyNames.cta_style, sanitize_prompt_input(Get(data, "cta_style", <<>>))>>,
       <<KeyNames.viral_flag, StrBool(Get(data, "viral", None) = <<"Y", "e", "s">>)>>,
       <<KeyNames.extra_instructions, sanitize_prompt_input(Get(data, "extra_instructions", <<>>))>>,
       <<KeyNames.model, model>> >>

TextCacheKey(data, model) == create_key(Namespaces.product_description, TextKeyArgs(data, model))

\* TextCacheKey of every payload of the model, computed once
TextCacheKeyOf ==
    [data \in {d \in GenInputs : validate_form_data(d)[1]} |-> TextCacheKey(data, DEFAULT_MODEL)]

\* handle_openai_error of every exception of the model, computed once
ErrorOf == [e \in ChatExceptions \cup ImageExceptions |-> handle_openai_error(e)]

PROGRESS_TOKENS == 300

\* min(100, int((total_tokens / 300) * 100))
Percent(total_tokens) ==
    LET percent == FloatInt(FloatMulInt(FloatDiv(total_tokens, PROGRESS_TOKENS), 100))
    IN  IF 100 < percent THEN 100 ELSE percent

\* Percent of every token count of the model, computed once
PercentOf == <<>> \o [n \in 1..(MaxDeltas + MaxChunks) |-> Percent(n)]

CachedEvent == [data |-> "Using cached result...", partial |-> <<>>, percent |-> 50]

CompleteEvent(text) == [data |-> "Text generation complete.", partial |-> text, percent |-> 100]

GeneratingEvent == [data |-> "Generating product description...", partial |-> <<>>]

DeltaEvent(text, n) ==
    [data |-> "Generating description...", partial |-> text, percent |-> PercentOf[n]]

\* the event of the except clause of generate_product_description
TextErrorEvent(e, text) ==
    [data |-> "Error: " \o ErrorOf[e][1],
     partial |-> text,
     percent |-> 0,
     error |-> TRUE,
     error_details |-> ErrorOf[e][2]]

(***************************************************************************)
(* utils/ai_service.py: _generate_image, the pure parts                    *)
(***************************************************************************)
ImageKeyArgs(name, model, size, quality) ==
    << <<KeyNames.product_name, name>>, <<KeyNames.model, model>>, <<KeyNames.size, size>>, <<KeyNames.quality, quality>> >>

ImageCacheKey(name, model) ==
    create_key(Namespaces.product_image, ImageKeyArgs(name, model, DEFAULT_SIZE, DEFAULT_QUALITY))

Callback10 == [status |-> "Creating image prompt...", percent |-> 10]
CallbackCached == [status |-> "Using cached image...", percent |-> 50]
Callback25 == [status |-> "Sending request to DALL-E 3...", percent |-> 25]
Callback50 ==
    [status |-> "Your image is being generated, it can take up to 30 seconds...", percent |-> 50]
CallbackUrl(url) == [percent |-> 100, image_url |-> url]
CallbackError(e) ==
    [status |-> "Image generation failed: " \o ErrorOf[e][1],
     percent |-> 100,
     error |-> TRUE,
     error_details |-> ErrorOf[e][2]]

(***************************************************************************)
(* app.py: the pure parts of the handlers                                  *)
(***************************************************************************)
ConfigErrorEvent ==
    [data |-> "Error: OpenAI API key is not configured. Please check server configuration.",
     partial |-> <<>>, percent |-> 0, error |-> TRUE]

ValidationErrorEvent(errors) ==
    [data |-> "Error: " \o JoinErrors(errors, 1, TRUE),
     partial |-> <<>>, percent |-> 0, errors |-> errors]

ImageStartedEvent ==
    [data |-> "Starting image generation in parallel...",
     partial |-> <<>>, percent |-> 0, image_generation_started |-> TRUE]

InjectedEvent(update) ==
    [data |-> "Text generation complete, image generation in progress.",
     partial |-> Get(update, "partial", <<>>), percent |-> 100]

RegenConfigErrorEvent ==
    [status |-> "Error: OpenAI API key is not configured. Please check server configuration.",
     percent |-> 0, error |-> TRUE]

RegenNameErrorEvent ==
    [status |-> "Error: Product name is required", percent |-> 0, error |-> TRUE]

\* any(k for k in progress_update if "image" in k): the keys of the program's
\* payloads that contain "image" are image_url and image_generation_started
HasImageKey(update) == (DOMAIN update) \cap {"image_url", "image_generation_started"} # {}

\* variant: the configuration is not consulted
ImageToggleIgnoresConfig(data, cfg) == Get(data, "generate_image", FALSE)

\* image_toggle after lines 123-128
ImageToggle(data, cfg) ==
    IF Get(data, "generate_image", FALSE) /\ ~cfg.ENABLE_IMAGE_GENERATION
    THEN FALSE
    ELSE Get(data, "generate_image", FALSE)

\* the condition of line 164
ShouldInject(update, image_toggle) ==
    /\ update.data = "Text generation complete."
    /\ image_toggle
    /\ ~HasImageKey(update)

\* sanitize_prompt_input(data.get("product_name", "")).strip()
HandlerProductName(data) == Strip(sanitize_prompt_input(Get(data, "product_name", <<>>)))

\* validate_form_data of every payload of the model, computed once
ValidationOf == [data \in GenInputs |-> validate_form_data(data)]
\* HandlerProductName of the payloads whose product name a handler sanitizes, computed once
ProductNameOf ==
    [data \in {d \in GenInputs : ValidationOf[d][1]} \cup RegenInputs |-> HandlerProductName(data)]

\* model=AppConfig.DEFAULT_IMAGE_MODEL in handle_generation
GenerationImageModel == DEFAULT_IMAGE_MODEL

\* variant: handle_regenerate_image names a model of its own
RegenerateImageModelOther == <<"d", "a", "l", "l", "-", "e", "-", "2">>

\* model=AppConfig.DEFAULT_IMAGE_MODEL in handle_regenerate_image
RegenerateImageModel == DEFAULT_IMAGE_MODEL

\* the key of the image for the names and models the handlers pass to
\* generate_product_image_async, which sanitizes the name once more; computed once
ImageCacheKeyOf ==
    [name \in {ProductNameOf[data] : data \in DOMAIN ProductNameOf} |->
        [m \in {GenerationImageModel, RegenerateImageModel} |->
            ImageCacheKey(sanitize_prompt_input(name), m)]]

\* variant: the emit is a broadcast
RecipientsBroadcast(room) == Sessions

\* the sessions an emit to room reaches: emit() inside a handler and
\* socketio.emit(..., room=session_id) both address one session id
Recipients(room) == {room}

\* the inboxes after the event is sent to room; a session that is not connected
\* receives nothing
Deliver(ib, room, ev) ==
    [s \in Sessions |->
        IF s \in Recipients(room) /\ sessions[s] = "connected" THEN ib[s] \cup {ev} ELSE ib[s]]

(***************************************************************************)
(* The session gateway: one job per handler invocation.  A job holds the   *)
(* locals of its handler thread (hpc and the generator it drives) and of   *)
(* the image thread it may start (ipc), and the events each has sent.      *)
(***************************************************************************)
JobIds == 1..Len(jobs)

\* observation: the value of an entry under key that has not reached its expiry
\* time at t, None when there is none
LiveEntry(c, key, t) ==
    IF key \in DOMAIN c /\ t < c[key].expires_at THEN c[key].value ELSE None

\* a job as the handler creates it; the handler fills in the rest
NewJob(s, kind, data) ==
    [sid |-> s, kind |-> kind, data |-> data,
     hpc |-> "done", image_toggle |-> FALSE,
     cache_key |-> <<>>, live_at_lookup |-> None, stored |-> FALSE,
     output_text |-> <<>>, total_tokens |-> 0, chunks |-> 0, counted |-> 0,
     raised |-> <<>>, yields |-> <<>>, events |-> <<>>, chat_calls |-> 0,
     ipc |-> "none", image_arg |-> <<>>, image_model |-> <<>>, image_key |-> <<>>,
     image_live_at_lookup |-> None, image_url |-> None, image_stored |-> FALSE,
     image_counted |-> 0, callbacks |-> <<>>, image_calls |-> 0]

\* an event on the wire: n is its position among the events its thread has sent
Progress(j, n, payload) == [event |-> "progress", job |-> j, n |-> n, payload |-> payload]
ImageProgress(j, n, payload) == [event |-> "image_progress", job |-> j, n |-> n, payload |-> payload]

\* @socketio.on("connect"): the server names the sessions in the order they connect
handle_connect(s) ==
    /\ sessions[s] = "new"
    /\ \A r \in Sessions : SessionOrder[r] < SessionOrder[s] => sessions[r] # "new"
    /\ sessions' = [sessions EXCEPT ![s] = "connected"]
    /\ inbox' = [inbox EXCEPT ![s] = @ \cup
           {[event |-> "connection_status", job |-> 0, n |-> 1,
             payload |-> [status |-> "connected", message |-> "Connected to server"]]}]
    /\ UNCHANGED <<config, now, ticks, cache, usage_stats, jobs, study>>

\* variant: a disconnect ends the image threads of the session
handle_disconnect_cancels(s) ==
    /\ sessions[s] = "connected"
    /\ sessions' = [sessions EXCEPT ![s] = "disconnected"]
    /\ jobs' = <<>> \o [j \in 1..Len(jobs) |->
           IF jobs[j].sid = s /\ jobs[j].ipc \in {"start", "call"}
           THEN [jobs[j] EXCEPT !.ipc = "done"]
           ELSE jobs[j]]
    /\ UNCHANGED <<config, now, ticks, cache, usage_stats, inbox, study>>

\* @socketio.on("disconnect")
handle_disconnect(s) ==
    /\ sessions[s] = "connected"
    /\ sessions' = [sessions EXCEPT ![s] = "disconnected"]
    /\ UNCHANGED <<config, now, ticks, cache, usage_stats, inbox, jobs, study>>

\* time passes
Tick(d) ==
    /\ ticks < MaxTicks
    /\ now' = now + d
    /\ ticks' = ticks + 1
    /\ UNCHANGED <<config, cache, usage_stats, sessions, inbox, jobs, study>>

\* variant: the form is validated before the credential is looked at
handle_generation_validates_first(s, data) ==
    /\ sessions[s] = "connected"
    /\ Len(jobs) < MaxJobs
    /\ LET j == Len(jobs) + 1
           job == NewJob(s, "start_generation", data)
           valid == ValidationOf[data]
           toggle == ImageToggle(data, config)
           name == ProductNameOf[data]
           first == IF ~valid[1] THEN <<ValidationErrorEvent(valid[2])>>
                    ELSE IF ~config.api_key_ok THEN <<ConfigErrorEvent>>
                    ELSE IF toggle THEN <<ImageStartedEvent>>
                    ELSE <<>>
           started == config.api_key_ok /\ valid[1]
       IN  /\ jobs' = Append(jobs,
                  [job EXCEPT !.hpc = IF started THEN "begin" ELSE "done",
                              !.image_toggle = started /\ toggle,
                              !.events = first,
                              !.ipc = IF started /\ toggle THEN "start" ELSE "none",
                              !.image_arg = IF started /\ toggle THEN name ELSE <<>>,
                              !.image_model = IF started /\ toggle THEN GenerationImageModel ELSE <<>>])
           /\ inbox' = IF first = <<>> THEN inbox ELSE Deliver(inbox, s, Progress(j, 1, first[1]))
    /\ UNCHANGED <<config, now, ticks, cache, usage_stats, sessions, study>>

\* handle_generation up to the point where it starts to drive the generator
handle_generation(s, data) ==
    /\ sessions[s] = "connected"
    /\ Len(jobs) < MaxJobs
    /\ LET j == Len(jobs) + 1
           job == NewJob(s, "start_generation", data)
           valid == ValidationOf[data]
           toggle == ImageToggle(data, config)
           name == ProductNameOf[data]
           first == IF ~config.api_key_ok THEN <<ConfigErrorEvent>>
                    ELSE IF ~valid[1] THEN <<ValidationErrorEvent(valid[2])>>
                    ELSE IF toggle THEN <<ImageStartedEvent>>
                    ELSE <<>>
           started == config.api_key_ok /\ valid[1]
       IN  /\ jobs' = Append(jobs,
                  [job EXCEPT !.hpc = IF started THEN "begin" ELSE "done",
                              !.image_toggle = started /\ toggle,
                              !.events = first,
                              !.ipc = IF started /\ toggle THEN "start" ELSE "none",
                              !.image_arg = IF started /\ toggle THEN name ELSE <<>>,
                              !.image_model = IF started /\ toggle THEN GenerationImageModel ELSE <<>>])
           /\ inbox' = IF first = <<>> THEN inbox ELSE Deliver(inbox, s, Progress(j, 1, first[1]))
    /\ UNCHANGED <<config, now, ticks, cache, usage_stats, sessions, study>>

\* what the handler emits for one update of the generator: the update, then
\* the event of lines 164-169 when its condition holds
Forwarded(update, image_toggle) ==
    IF ShouldInject(update, image_toggle) THEN <<update, InjectedEvent(update)>> ELSE <<update>>

\* what the handler emits for the updates ys, in order
RECURSIVE ForwardedAll(_, _)
ForwardedAll(ys, image_toggle) ==
    IF ys = <<>> THEN <<>>
    ELSE Forwarded(Head(ys), image_toggle) \o ForwardedAll(Tail(ys), image_toggle)

\* the inboxes after the handler of job j emitted evs, job.events being what it emitted before
EmitAll(ib, j, evs) ==
    [s \in Sessions |->
        IF s \in Recipients(jobs[j].sid) /\ sessions[s] = "connected"
        THEN ib[s] \cup {Progress(j, Len(jobs[j].events) + i, evs[i]) : i \in 1..Len(evs)}
        ELSE ib[s]]

\* variant: the request is counted before the cache is looked at
GenBegin_counts_first(j) ==
    /\ jobs[j].hpc = "begin"
    /\ LET job == jobs[j]
           use_cache == config.ENABLE_CACHING
           key == TextCacheKeyOf[job.data]
           cached_result == IF use_cache THEN cache_get_result(cache, key, now) ELSE None
           hit == use_cache /\ PyTruthy(cached_result)
           ys == IF hit THEN <<CachedEvent, CompleteEvent(cached_result)>> ELSE <<GeneratingEvent>>
           evs == ForwardedAll(ys, job.image_toggle)
       IN  /\ cache' = IF use_cache THEN cache_after_get(cache, key, now) ELSE cache
           /\ usage_stats' = [usage_stats EXCEPT !.total_requests = @ + 1]
           /\ jobs' = [jobs EXCEPT ![j] =
                  [job EXCEPT !.hpc = IF hit THEN "done" ELSE "stream",
                              !.cache_key = IF use_cache THEN key ELSE <<>>,
                              !.live_at_lookup = IF use_cache THEN LiveEntry(cache, key, now) ELSE None,
                              !.counted = IF hit THEN 0 ELSE 1,
                              !.chat_calls = IF hit THEN 0 ELSE 1,
                              !.yields = @ \o ys,
                              !.events = @ \o evs]]
           /\ inbox' = EmitAll(inbox, j, evs)
    /\ UNCHANGED <<config, now, ticks, sessions, study>>

\* variant: the generator starts when the image thread has ended
GenBegin_after_image(j) ==
    /\ jobs[j].hpc = "begin"
    /\ jobs[j].ipc \in {"none", "done"}
    /\ LET job == jobs[j]
           use_cache == config.ENABLE_CACHING
           key == TextCacheKeyOf[job.data]
           cached_result == IF use_cache THEN cache_get_result(cache, key, now) ELSE None
           hit == use_cache /\ PyTruthy(cached_result)
           ys == IF hit THEN <<CachedEvent, CompleteEvent(cached_result)>> ELSE <<GeneratingEvent>>
           evs == ForwardedAll(ys, job.image_toggle)
       IN  /\ cache' = IF use_cache THEN cache_after_get(cache, key, now) ELSE cache
           /\ usage_stats' = IF hit THEN usage_stats
                             ELSE [usage_stats EXCEPT !.total_requests = @ + 1]
           /\ jobs' = [jobs EXCEPT ![j] =
                  [job EXCEPT !.hpc = IF hit THEN "done" ELSE "stream",
                              !.cache_key = IF use_cache THEN key ELSE <<>>,
                              !.live_at_lookup = IF use_cache THEN LiveEntry(cache, key, now) ELSE None,
                              !.counted = IF hit THEN 0 ELSE 1,
                              !.chat_calls = IF hit THEN 0 ELSE 1,
                              !.yields = @ \o ys,
                              !.events = @ \o evs]]
           /\ inbox' = EmitAll(inbox, j, evs)
    /\ UNCHANGED <<config, now, ticks, sessions, study>>

\* generate_product_description from its first line: the cache lookup, then either
\* the two yields of the hit path or the counter, the first yield and the call of
\* create_chat_completion(..., stream=True)
GenBegin(j) ==
    /\ jobs[j].hpc = "begin"
    /\ LET job == jobs[j]
           use_cache == config.ENABLE_CACHING
           key == TextCacheKeyOf[job.data]
           cached_result == IF use_cache THEN cache_get_result(cache, key, now) ELSE None
           hit == use_cache /\ PyTruthy(cached_result)
           ys == IF hit THEN <<CachedEvent, CompleteEvent(cached_result)>> ELSE <<GeneratingEvent>>
           evs == ForwardedAll(ys, job.image_toggle)
       IN  /\ cache' = IF use_cache THEN cache_after_get(cache, key, now) ELSE cache
           /\ usage_stats' = IF hit THEN usage_stats
                             ELSE [usage_stats EXCEPT !.total_requests = @ + 1]
           /\ jobs' = [jobs EXCEPT ![j] =
                  [job EXCEPT !.hpc = IF hit THEN "done" ELSE "stream",
                              !.cache_key = IF use_cache THEN key ELSE <<>>,
                              !.live_at_lookup = IF use_cache THEN LiveEntry(cache, key, now) ELSE None,
                              !.counted = IF hit THEN 0 ELSE 1,
                              !.chat_calls = IF hit THEN 0 ELSE 1,
                              !.yields = @ \o ys,
                              !.events = @ \o evs]]
           /\ inbox' = EmitAll(inbox, j, evs)
    /\ UNCHANGED <<config, now, ticks, sessions, study>>

\* one chunk of the stream: a non-empty delta is appended and reported
GenChunk(j, delta) ==
    /\ jobs[j].hpc = "stream"
    /\ jobs[j].chunks < MaxChunks
    /\ LET job == jobs[j]
           text == job.output_text \o delta
           n == job.total_tokens + 1
           ys == IF Truthy(delta) THEN <<DeltaEvent(text, n)>> ELSE <<>>
           evs == ForwardedAll(ys, job.image_toggle)
       IN  /\ jobs' = [jobs EXCEPT ![j] =
                  [job EXCEPT !.chunks = @ + 1,
                              !.output_text = IF Truthy(delta) THEN text ELSE @,
                              !.total_tokens = IF Truthy(delta) THEN n ELSE @,
                              !.yields = @ \o ys,
                              !.events = @ \o evs]]
           /\ inbox' = EmitAll(inbox, j, evs)
    /\ UNCHANGED <<config, now, ticks, cache, usage_stats, sessions, study>>

\* variant: after the error event the generator goes on to its final yield
GenErrorThenComplete(j, e) ==
    /\ jobs[j].hpc = "stream"
    /\ LET job == jobs[j]
           ys == <<TextErrorEvent(e, job.output_text), CompleteEvent(job.output_text)>>
           evs == ForwardedAll(ys, job.image_toggle)
       IN  /\ jobs' = [jobs EXCEPT ![j] =
                  [job EXCEPT !.hpc = "done", !.raised = <<e>>,
                              !.yields = @ \o ys, !.events = @ \o evs]]
           /\ inbox' = EmitAll(inbox, j, evs)
    /\ UNCHANGED <<config, now, ticks, cache, usage_stats, sessions, study>>

\* variant: the except clause stores the partial output
GenError_stores_partial(j, e) ==
    /\ jobs[j].hpc = "stream"
    /\ LET job == jobs[j]
           ys == <<TextErrorEvent(e, job.output_text)>>
           evs == ForwardedAll(ys, job.image_toggle)
       IN  /\ cache' = IF config.ENABLE_CACHING
                       THEN cache_set(cache, job.cache_key, job.output_text, now)
                       ELSE cache
           /\ jobs' = [jobs EXCEPT ![j] =
                  [job EXCEPT !.hpc = "done", !.raised = <<e>>,
                              !.yields = @ \o ys, !.events = @ \o evs]]
           /\ inbox' = EmitAll(inbox, j, evs)
    /\ UNCHANGED <<config, now, ticks, usage_stats, sessions, study>>

\* create_chat_completion or the read of the next chunk raises: the except clause
GenError(j, e) ==
    /\ jobs[j].hpc = "stream"
    /\ LET job == jobs[j]
           ys == <<TextErrorEvent(e, job.output_text)>>
           evs == ForwardedAll(ys, job.image_toggle)
       IN  /\ jobs' = [jobs EXCEPT ![j] =
                  [job EXCEPT !.hpc = "done", !.raised = <<e>>,
                              !.yields = @ \o ys, !.events = @ \o evs]]
           /\ inbox' = EmitAll(inbox, j, evs)
    /\ UNCHANGED <<config, now, ticks, cache, usage_stats, sessions, study>>

\* variant: the generator ends without its final yield
GenExhausted_without_event(j) ==
    /\ jobs[j].hpc = "stream"
    /\ LET job == jobs[j]
           use_cache == config.ENABLE_CACHING
       IN  /\ usage_stats' = [usage_stats EXCEPT !.total_tokens = @ + job.total_tokens]
           /\ cache' = IF use_cache
                       THEN cache_set(cache, job.cache_key, job.output_text, now)
                       ELSE cache
           /\ jobs' = [jobs EXCEPT ![j] = [job EXCEPT !.hpc = "done", !.stored = use_cache]]
    /\ UNCHANGED <<config, now, ticks, sessions, inbox, study>>

\* the stream is exhausted: token count, cache write, final yield
GenExhausted(j) ==
    /\ jobs[j].hpc = "stream"
    /\ LET job == jobs[j]
           use_cache == config.ENABLE_CACHING
           ys == <<CompleteEvent(job.output_text)>>
           evs == ForwardedAll(ys, job.image_toggle)
       IN  /\ usage_stats' = [usage_stats EXCEPT !.total_tokens = @ + job.total_tokens]
           /\ cache' = IF use_cache
                       THEN cache_set(cache, job.cache_key, job.output_text, now)
                       ELSE cache
           /\ jobs' = [jobs EXCEPT ![j] =
                  [job EXCEPT !.hpc = "done", !.stored = use_cache,
                              !.yields = @ \o ys, !.events = @ \o evs]]
           /\ inbox' = EmitAll(inbox, j, evs)
    /\ UNCHANGED <<config, now, ticks, sessions, study>>

\* handle_regenerate_image: it returns as soon as the image thread is started
handle_regenerate_image(s, data) ==
    /\ sessions[s] = "connected"
    /\ Len(jobs) < MaxJobs
    /\ LET j == Len(jobs) + 1
           job == NewJob(s, "regenerate_image", data)
           name == ProductNameOf[data]
           first == IF ~config.api_key_ok THEN <<RegenConfigErrorEvent>>
                    ELSE IF ~Truthy(name) THEN <<RegenNameErrorEvent>>
                    ELSE <<>>
           started == first = <<>>
       IN  /\ jobs' = Append(jobs,
                  [job EXCEPT !.events = first,
                              !.ipc = IF started THEN "start" ELSE "none",
                              !.image_arg = IF started THEN name ELSE <<>>,
                              !.image_model = IF started THEN RegenerateImageModel ELSE <<>>])
           /\ inbox' = IF started THEN inbox ELSE Deliver(inbox, s, ImageProgress(j, 1, first[1]))
    /\ UNCHANGED <<config, now, ticks, cache, usage_stats, sessions, study>>

\* the inboxes after the image thread of job j invoked local_callback on each of updates
CallbackAll(ib, j, updates) ==
    [s \in Sessions |->
        IF s \in Recipients(jobs[j].sid) /\ sessions[s] = "connected"
        THEN ib[s] \cup {ImageProgress(j, Len(jobs[j].callbacks) + i, updates[i]) : i \in 1..Len(updates)}
        ELSE ib[s]]

\* _generate_image from its first line: the first callback, the cache check, then
\* either the two callbacks of the hit path or the status callbacks, the counters
\* and the call of create_image
ImgBegin(j) ==
    /\ jobs[j].ipc = "start"
    /\ LET job == jobs[j]
           key == ImageCacheKeyOf[job.image_arg][job.image_model]
           cached_url == cache_get_result(cache, key, now)
           hit == PyTruthy(cached_url)
           updates == IF hit
                      THEN <<Callback10, CallbackCached, CallbackUrl(cached_url)>>
                      ELSE <<Callback10, Callback25, Callback50>>
       IN  /\ cache' = cache_after_get(cache, key, now)
           /\ usage_stats' = IF hit THEN usage_stats
                             ELSE [usage_stats EXCEPT !.total_images = @ + 1,
                                                      !.total_requests = @ + 1]
           /\ jobs' = [jobs EXCEPT ![j] =
                  [job EXCEPT !.ipc = IF hit THEN "done" ELSE "call",
                              !.image_key = key,
                              !.image_live_at_lookup = LiveEntry(cache, key, now),
                              !.image_counted = IF hit THEN 0 ELSE 1,
                              !.image_calls = IF hit THEN 0 ELSE 1,
                              !.callbacks = @ \o updates]]
           /\ inbox' = CallbackAll(inbox, j, updates)
    /\ UNCHANGED <<config, now, ticks, sessions, study>>

\* create_image and get_image_url return a URL: cache write, final callback
ImgReturn(j, url) ==
    /\ jobs[j].ipc = "call"
    /\ cache' = cache_set(cache, jobs[j].image_key, url, now)
    /\ jobs' = [jobs EXCEPT ![j] =
           [@ EXCEPT !.ipc = "done",
                     !.image_stored = TRUE,
                     !.callbacks = @ \o <<CallbackUrl(url)>>]]
    /\ inbox' = CallbackAll(inbox, j, <<CallbackUrl(url)>>)
    /\ UNCHANGED <<config, now, ticks, usage_stats, sessions, study>>

\* variant: after a failure the thread calls the provider once more
ImgError_retries(j, e) ==
    /\ jobs[j].ipc = "call"
    /\ jobs' = [jobs EXCEPT ![j] =
           IF jobs[j].image_calls < 2
           THEN [@ EXCEPT !.image_calls = @ + 1]
           ELSE [@ EXCEPT !.ipc = "done", !.callbacks = @ \o <<CallbackError(e)>>]]
    /\ inbox' = IF jobs[j].image_calls < 2 THEN inbox ELSE CallbackAll(inbox, j, <<CallbackError(e)>>)
    /\ UNCHANGED <<config, now, ticks, cache, usage_stats, sessions, study>>

\* create_image or get_image_url raises: the except clause of _generate_image
ImgError(j, e) ==
    /\ jobs[j].ipc = "call"
    /\ jobs' = [jobs EXCEPT ![j] =
           [@ EXCEPT !.ipc = "done", !.callbacks = @ \o <<CallbackError(e)>>]]
    /\ inbox' = CallbackAll(inbox, j, <<CallbackError(e)>>)
    /\ UNCHANGED <<config, now, ticks, cache, usage_stats, sessions, study>>

(***************************************************************************)
(* The same threads statement by statement: the end of                     *)
(* generate_product_description after its chunk loop, and _generate_image. *)
(* Another thread may run between any two of these steps.                  *)
(***************************************************************************)
\* the chunk loop has ended: usage_stats["total_tokens"] += total_tokens
GenAddTokens(j) ==
    /\ jobs[j].hpc = "stream"
    /\ usage_stats' = [usage_stats EXCEPT !.total_tokens = @ + jobs[j].total_tokens]
    /\ jobs' = [jobs EXCEPT ![j] = [@ EXCEPT !.hpc = "set"]]
    /\ UNCHANGED <<config, now, ticks, cache, sessions, inbox, study>>

\* variant: the buffer is not stored
GenCacheSet_skips(j) ==
    /\ jobs[j].hpc = "set"
    /\ jobs' = [jobs EXCEPT ![j] = [@ EXCEPT !.hpc = "final"]]
    /\ UNCHANGED <<config, now, ticks, cache, usage_stats, sessions, inbox, study>>

\* if use_cache: cache.set(cache_key, output_text)
GenCacheSet(j) ==
    /\ jobs[j].hpc = "set"
    /\ cache' = IF config.ENABLE_CACHING
                THEN cache_set(cache, jobs[j].cache_key, jobs[j].output_text, now)
                ELSE cache
    /\ jobs' = [jobs EXCEPT ![j] = [@ EXCEPT !.hpc = "final", !.stored = config.ENABLE_CACHING]]
    /\ UNCHANGED <<config, now, ticks, usage_stats, sessions, inbox, study>>

\* the final yield, forwarded by the handler
GenFinalYield(j) ==
    /\ jobs[j].hpc = "final"
    /\ LET job == jobs[j]
           ys == <<CompleteEvent(job.output_text)>>
           evs == ForwardedAll(ys, job.image_toggle)
       IN  /\ jobs' = [jobs EXCEPT ![j] =
                  [job EXCEPT !.hpc = "done", !.yields = @ \o ys, !.events = @ \o evs]]
           /\ inbox' = EmitAll(inbox, j, evs)
    /\ UNCHANGED <<config, now, ticks, cache, usage_stats, sessions, study>>

\* _generate_image from its first line: the name is sanitized, the first callback
ImgFirstCallback(j) ==
    /\ jobs[j].ipc = "start"
    /\ jobs' = [jobs EXCEPT ![j] = [@ EXCEPT !.ipc = "lookup", !.callbacks = @ \o <<Callback10>>]]
    /\ inbox' = CallbackAll(inbox, j, <<Callback10>>)
    /\ UNCHANGED <<config, now, ticks, cache, usage_stats, sessions, study>>

\* the cache check: on a hit the two callbacks of the replay and the return
ImgLookup(j) ==
    /\ jobs[j].ipc = "lookup"
    /\ LET job == jobs[j]
           key == ImageCacheKeyOf[job.image_arg][job.image_model]
           cached_url == cache_get_result(cache, key, now)
           hit == PyTruthy(cached_url)
           updates == IF hit THEN <<CallbackCached, CallbackUrl(cached_url)>> ELSE <<>>
       IN  /\ cache' = cache_after_get(cache, key, now)
           /\ jobs' = [jobs EXCEPT ![j] =
                  [job EXCEPT !.ipc = IF hit THEN "done" ELSE "cb25",
                              !.image_key = key,
                              !.image_live_at_lookup = LiveEntry(cache, key, now),
                              !.callbacks = @ \o updates]]
           /\ inbox' = CallbackAll(inbox, j, updates)
    /\ UNCHANGED <<config, now, ticks, usage_stats, sessions, study>>

\* the prompt is built; the callbacks at 25% and at 50%, one per step
ImgStatusCallback(j) ==
    /\ jobs[j].ipc \in {"cb25", "cb50"}
    /\ LET update == IF jobs[j].ipc = "cb25" THEN Callback25 ELSE Callback50
       IN  /\ jobs' = [jobs EXCEPT ![j] =
                  [@ EXCEPT !.ipc = IF jobs[j].ipc = "cb25" THEN "cb50" ELSE "count",
                            !.callbacks = @ \o <<update>>]]
           /\ inbox' = CallbackAll(inbox, j, <<update>>)
    /\ UNCHANGED <<config, now, ticks, cache, usage_stats, sessions, study>>

\* variant: the call is not counted
ImgCount_skips(j) ==
    /\ jobs[j].ipc = "count"
    /\ jobs' = [jobs EXCEPT ![j] = [@ EXCEPT !.ipc = "call", !.image_calls = 1]]
    /\ UNCHANGED <<config, now, ticks, cache, usage_stats, sessions, inbox, study>>

\* total_images += 1, total_requests += 1, then create_image is entered
ImgCount(j) ==
    /\ jobs[j].ipc = "count"
    /\ usage_stats' = [usage_stats EXCEPT !.total_images = @ + 1, !.total_requests = @ + 1]
    /\ jobs' = [jobs EXCEPT ![j] = [@ EXCEPT !.ipc = "call", !.image_counted = 1, !.image_calls = 1]]
    /\ UNCHANGED <<config, now, ticks, cache, sessions, inbox, study>>

\* create_image returns and get_image_url finds the URL
ImgCallReturn(j, url) ==
    /\ jobs[j].ipc = "call"
    /\ jobs' = [jobs EXCEPT ![j] = [@ EXCEPT !.ipc = "set", !.image_url = url]]
    /\ UNCHANGED <<config, now, ticks, cache, usage_stats, sessions, inbox, study>>

\* cache.set(cache_key, image_url)
ImgCacheSet(j) ==
    /\ jobs[j].ipc = "set"
    /\ cache' = cache_set(cache, jobs[j].image_key, jobs[j].image_url, now)
    /\ jobs' = [jobs EXCEPT ![j] = [@ EXCEPT !.ipc = "final", !.image_stored = TRUE]]
    /\ UNCHANGED <<config, now, ticks, usage_stats, sessions, inbox, study>>

\* the callback with the URL
ImgFinalCallback(j) ==
    /\ jobs[j].ipc = "final"
    /\ jobs' = [jobs EXCEPT ![j] =
           [@ EXCEPT !.ipc = "done", !.callbacks = @ \o <<CallbackUrl(jobs[j].image_url)>>]]
    /\ inbox' = CallbackAll(inbox, j, <<CallbackUrl(jobs[j].image_url)>>)
    /\ UNCHANGED <<config, now, ticks, cache, usage_stats, sessions, study>>

(***************************************************************************)
(* utils/ai_service.py: the counter updates as the interpreter runs them.  *)
(* usage_stats[name] += amount reads the item, adds, and writes the item   *)
(* back; no lock is held, so another thread may run between the read and   *)
(* the write.  A task is one cache-miss run of generate_product_description*)
(* ("text") or of _generate_image ("image").                               *)
(***************************************************************************)
MaxTasks == 3

TaskKinds == {"text", "image"}

\* the counter a task at pc is updating
CounterAt(pc) ==
    CASE pc = "requests" -> "total_requests"
      [] pc = "images" -> "total_images"
      [] pc = "tokens" -> "total_tokens"

\* the right-hand side of the += a task is at
AmountAt(task) == IF task.pc = "tokens" THEN task.total_tokens ELSE 1

\* where a task goes after the += it is at
PcAfter(task) ==
    CASE task.kind = "text" /\ task.pc = "requests" -> "stream"
      [] task.kind = "text" /\ task.pc = "tokens" -> "done"
      [] task.kind = "image" /\ task.pc = "images" -> "requests"
      [] task.kind = "image" /\ task.pc = "requests" -> "done"

\* a thread reaches its first counter update
StartTask(kind) ==
    /\ Len(tasks) < MaxTasks
    /\ tasks' = Append(tasks,
           [kind |-> kind, pc |-> IF kind = "text" THEN "requests" ELSE "images",
            phase |-> "load", loaded |-> 0, total_tokens |-> 0, completed |-> FALSE])
    /\ UNCHANGED <<config, now, ticks, cache, usage_stats, sessions, inbox, jobs, cthreads, cops, calls, stream>>

\* the read of usage_stats[name]
CounterLoad(t) ==
    /\ tasks[t].pc \in {"requests", "images", "tokens"}
    /\ tasks[t].phase = "load"
    /\ tasks' = [tasks EXCEPT ![t] =
           [@ EXCEPT !.phase = "store", !.loaded = usage_stats[CounterAt(tasks[t].pc)]]]
    /\ UNCHANGED <<config, now, ticks, cache, usage_stats, sessions, inbox, jobs, cthreads, cops, calls, stream>>

\* the write of usage_stats[name]
CounterStore(t) ==
    /\ tasks[t].pc \in {"requests", "images", "tokens"}
    /\ tasks[t].phase = "store"
    /\ usage_stats' = [usage_stats EXCEPT
           ![CounterAt(tasks[t].pc)] = tasks[t].loaded + AmountAt(tasks[t])]
    /\ tasks' = [tasks EXCEPT ![t] = [@ EXCEPT !.phase = "load", !.pc = PcAfter(tasks[t])]]
    /\ UNCHANGED <<config, now, ticks, cache, sessions, inbox, jobs, cthreads, cops, calls, stream>>

\* the stream of a text task ends after n non-empty deltas
TaskStream(t, n) ==
    /\ tasks[t].pc = "stream"
    /\ tasks' = [tasks EXCEPT ![t] =
           [@ EXCEPT !.pc = "tokens", !.total_tokens = n, !.completed = TRUE]]
    /\ UNCHANGED <<config, now, ticks, cache, usage_stats, sessions, inbox, jobs, cthreads, cops, calls, stream>>

\* the stream of a text task raises: the except clause adds no tokens
TaskStreamError(t) ==
    /\ tasks[t].pc = "stream"
    /\ tasks' = [tasks EXCEPT ![t] = [@ EXCEPT !.pc = "done"]]
    /\ UNCHANGED <<config, now, ticks, cache, usage_stats, sessions, inbox, jobs, cthreads, cops, calls, stream>>

(***************************************************************************)
(* utils/cache.py: SimpleCache.get and SimpleCache.set line by line, run   *)
(* by several threads on one key.                                          *)
(***************************************************************************)
MaxThreads == 3

SharedKey == <<"k">>

Values == { <<"a">>, <<"b">> }

\* a thread calls cache.get(SharedKey)
StartGet ==
    /\ Len(cthreads) < MaxThreads
    /\ cthreads' = Append(cthreads,
           [op |-> "get", pc |-> "contains", value |-> None, entry |-> <<>>,
            result |-> None, removed |-> <<>>])
    /\ UNCHANGED <<config, now, ticks, cache, usage_stats, sessions, inbox, jobs, tasks, cops, calls, stream>>

\* a thread calls cache.set(SharedKey, v)
StartSet(v) ==
    /\ Len(cthreads) < MaxThreads
    /\ cthreads' = Append(cthreads,
           [op |-> "set", pc |-> "store", value |-> v, entry |-> <<>>,
            result |-> None, removed |-> <<>>])
    /\ UNCHANGED <<config, now, ticks, cache, usage_stats, sessions, inbox, jobs, tasks, cops, calls, stream>>

\* set: the entry is built and stored
SetStore(t) ==
    /\ cthreads[t].pc = "store"
    /\ cache' = cache_set(cache, SharedKey, cthreads[t].value, now)
    /\ cthreads' = [cthreads EXCEPT ![t] = [@ EXCEPT !.pc = "done"]]
    /\ UNCHANGED <<config, now, ticks, usage_stats, sessions, inbox, jobs, tasks, cops, calls, stream>>

\* get: if key not in self.cache: return None
GetContains(t) ==
    /\ cthreads[t].pc = "contains"
    /\ cthreads' = [cthreads EXCEPT ![t] =
           [@ EXCEPT !.pc = IF SharedKey \in DOMAIN cache THEN "read" ELSE "done"]]
    /\ UNCHANGED <<config, now, ticks, cache, usage_stats, sessions, inbox, jobs, tasks, cops, calls, stream>>

\* get: entry = self.cache[key]; a KeyError when the key has gone
GetRead(t) ==
    /\ cthreads[t].pc = "read"
    /\ cthreads' = [cthreads EXCEPT ![t] =
           IF SharedKey \in DOMAIN cache
           THEN [@ EXCEPT !.pc = "compare", !.entry = <<cache[SharedKey]>>]
           ELSE [@ EXCEPT !.pc = "raised"]]
    /\ UNCHANGED <<config, now, ticks, cache, usage_stats, sessions, inbox, jobs, tasks, cops, calls, stream>>

\* get: if entry["expires_at"] < time.time(), else return entry["value"]
GetCompare(t) ==
    /\ cthreads[t].pc = "compare"
    /\ cthreads' = [cthreads EXCEPT ![t] =
           IF Expired(cthreads[t].entry[1], now)
           THEN [@ EXCEPT !.pc = "del"]
           ELSE [@ EXCEPT !.pc = "done", !.result = cthreads[t].entry[1].value]]
    /\ UNCHANGED <<config, now, ticks, cache, usage_stats, sessions, inbox, jobs, tasks, cops, calls, stream>>

\* get: del self.cache[key]; return None; a KeyError when the key has gone
GetDel(t) ==
    /\ cthreads[t].pc = "del"
    /\ IF SharedKey \in DOMAIN cache
       THEN /\ cache' = cache_delete(cache, SharedKey)
            /\ cthreads' = [cthreads EXCEPT ![t] =
                   [@ EXCEPT !.pc = "done", !.removed = <<cache[SharedKey]>>]]
       ELSE /\ cache' = cache
            /\ cthreads' = [cthreads EXCEPT ![t] = [@ EXCEPT !.pc = "raised"]]
    /\ UNCHANGED <<config, now, ticks, usage_stats, sessions, inbox, jobs, tasks, cops, calls, stream>>

(***************************************************************************)
(* utils/cache.py: a history of whole get and set calls on a few keys, the *)
(* clock advancing between them.                                           *)
(***************************************************************************)
MaxOps == 4
MaxElapse == 3

Keys == { <<"k", "1">>, <<"k", "2">> }

\* by how much time.time() moves between two calls
ElapseSteps == {1, default_expiry - 1}

\* the entries under key: one or none
EntryOf(c, key) == IF key \in DOMAIN c THEN <<c[key]>> ELSE <<>>

\* time passes between two calls
Elapse(d) ==
    /\ ticks < MaxElapse
    /\ now' = now + d
    /\ ticks' = ticks + 1
    /\ UNCHANGED <<config, cache, usage_stats, sessions, inbox, jobs, study>>

\* cache.set(key, value)
OpSet(key, value) ==
    /\ Len(cops) < MaxOps
    /\ cache' = cache_set(cache, key, value, now)
    /\ cops' = Append(cops,
           [op |-> "set", key |-> key, at |-> now, before |-> EntryOf(cache, key), result |-> None])
    /\ UNCHANGED <<config, now, ticks, usage_stats, sessions, inbox, jobs, tasks, cthreads, calls, stream>>

\* cache.get(key)
OpGet(key) ==
    /\ Len(cops) < MaxOps
    /\ cache' = cache_after_get(cache, key, now)
    /\ cops' = Append(cops,
           [op |-> "get", key |-> key, at |-> now, before |-> EntryOf(cache, key),
            result |-> cache_get_result(cache, key, now)])
    /\ UNCHANGED <<config, now, ticks, usage_stats, sessions, inbox, jobs, tasks, cthreads, calls, stream>>

(***************************************************************************)
(* The function studies: a pure function of the program is called on       *)
(* inputs drawn from a bounded set, and each call is logged with its       *)
(* result.                                                                 *)
(***************************************************************************)
MaxCalls == 2

(***************************************************************************)
(* utils/cache.py: create_key as generate_product_description and          *)
(* _generate_image call it                                                 *)
(***************************************************************************)
\* the calls of create_key of the study, <<namespace, keyword arguments>>: the keyword
\* arguments of the two call sites for field values a client may send (plain ones and
\* ones that hold the separators of the key), written in call order, reversed, or
\* rotated by one or five places
KeyCalls ==
    LET audiences == { <<>>, <<"a">>, <<"a", ":", "c", "t", "a", "_", "s", "t", "y", "l", "e", "=", "b">> }
        cta_styles == { <<>>, <<"b">>, <<"b", ":", "c", "t", "a", "_", "s", "t", "y", "l", "e", "=">> }
        image_names == { Mug, <<"M", "u", "g", ":", "q", "u", "a", "l", "i", "t", "y", "=", "h", "d">> }
        payloads == { [product_name |-> n, audience |-> a, cta_style |-> c] :
                          n \in {Mug, MugSpaced}, a \in audiences, c \in cta_styles }
        Rotate(kw, k) == <<>> \o [i \in 1..Len(kw) |-> kw[((i + k - 1) % Len(kw)) + 1]]
        Reverse(kw) == <<>> \o [i \in 1..Len(kw) |-> kw[Len(kw) + 1 - i]]
        Orders(kw) == { kw, Reverse(kw), Rotate(kw, 1), Rotate(kw, 5) }
    IN  UNION { { <<Namespaces.product_description, kw>> :
                      kw \in Orders(TextKeyArgs(data, DEFAULT_MODEL)) } : data \in payloads }
        \cup
        UNION { { <<Namespaces.product_image, kw>> :
                      kw \in Orders(ImageKeyArgs(sanitize_prompt_input(n), DEFAULT_IMAGE_MODEL,
                                                 DEFAULT_SIZE, DEFAULT_QUALITY)) } :
                    n \in image_names }

\* cache.create_key(ns, **kwargs)
CallCreateKey(ns, kwargs) ==
    /\ Len(calls) < MaxCalls
    /\ calls' = Append(calls, [ns |-> ns, kwargs |-> kwargs, result |-> create_key(ns, kwargs)])
    /\ UNCHANGED <<config, now, ticks, cache, usage_stats, sessions, inbox, jobs, tasks, cthreads, cops, stream>>

(***************************************************************************)
(* utils/validation.py: sanitize_prompt_input on client text, and on its   *)
(* own result (handle_generation sanitizes the product name at app.py:119, *)
(* and _generate_image sanitizes the name it is given once more)           *)
(***************************************************************************)
MaxPieces == 3

\* the texts of the study: up to MaxPieces pieces, one after the other
SanitizeInputs ==
    LET pieces ==
            { <<"s", "y", "s">>, <<"t", "e", "m", ":">>, <<"u", "s", "e", "r", ":">>,
              <<"A", "S", "S", "I", "S", "T", "A", "N", "T", ":">>,
              <<"x">>, <<" ">>, <<"\n">>, FENCE, FENCE \o <<"x">> \o FENCE,
              <<"i", "g", "n", "o", "r", "e">>,
              <<" ", "p", "r", "e", "v", "i", "o", "u", "s", " ", "i", "n", "s", "t", "r", "u", "c", "t", "i", "o", "n", "s">>,
              <<"I", "G", "N", "O", "R", "E", " ", "P", "R", "E", "V", "I", "O", "U", "S", " ", "I", "N", "S", "T", "R", "U", "C", "T", "I", "O", "N", "S">> }
        Texts[n \in 0..MaxPieces] ==
            IF n = 0 THEN { <<>> }
            ELSE Texts[n - 1] \cup { t \o p : t \in Texts[n - 1], p \in pieces }
    IN  Texts[MaxPieces]

\* sanitize_prompt_input(text)
CallSanitize(text) ==
    /\ Len(calls) < MaxCalls
    /\ calls' = Append(calls, [text |-> text, result |-> sanitize_prompt_input(text)])
    /\ UNCHANGED <<config, now, ticks, cache, usage_stats, sessions, inbox, jobs, tasks, cthreads, cops, stream>>

(***************************************************************************)
(* utils/error_handler.py: handle_openai_error on provider exceptions      *)
(***************************************************************************)
\* the exceptions of the study: a class of the provider library and a message of up
\* to MaxPieces pieces
ErrorInputs ==
    LET type_names ==
            { <<"R", "a", "t", "e", "L", "i", "m", "i", "t", "E", "r", "r", "o", "r">>,
              <<"A", "P", "I", "C", "o", "n", "n", "e", "c", "t", "i", "o", "n", "E", "r", "r", "o", "r">> }
        pieces ==
            { <<"R", "a", "t", "e", " ", "l", "i", "m", "i", "t">>, <<" ">>,
              <<"c", "o", "n", "n", "e", "c", "t", "i", "o", "n">>,
              <<"t", "i", "m", "e", "d", " ", "o", "u", "t">>,
              <<"u", "n", "a", "u", "t", "h", "o", "r", "i", "z", "e", "d">> }
        Texts[n \in 0..MaxPieces] ==
            IF n = 0 THEN { <<>> }
            ELSE Texts[n - 1] \cup { t \o p : t \in Texts[n - 1], p \in pieces }
    IN  { [type_name |-> tn, text |-> t] : tn \in type_names, t \in Texts[MaxPieces] }

\* handle_openai_error(e)
CallHandleError(e) ==
    /\ Len(calls) < MaxCalls
    /\ calls' = Append(calls, [e |-> e, result |-> handle_openai_error(e)])
    /\ UNCHANGED <<config, now, ticks, cache, usage_stats, sessions, inbox, jobs, tasks, cthreads, cops, stream>>

(***************************************************************************)
(* utils/ai_service.py: the chunk loop of generate_product_description,    *)
(* one run on its own.  received counts the non-empty deltas the provider  *)
(* has sent, yields the events the loop has yielded, last holds the latest.*)
(***************************************************************************)
\* no run of the loop has started
NoStream ==
    [pc |-> "idle", output_text |-> <<>>, total_tokens |-> 0,
     empty |-> 0, received |-> 0, yields |-> 0, last |-> <<>>]

\* response = create_chat_completion(..., stream=True); total_tokens = 0
StreamOpen ==
    /\ stream.pc = "idle"
    /\ stream' = [stream EXCEPT !.pc = "loop"]
    /\ UNCHANGED <<config, now, ticks, cache, usage_stats, sessions, inbox, jobs, tasks, cthreads, cops, calls>>

\* one pass of "for chunk in response": delta = extract_stream_content(chunk)
StreamChunk(delta) ==
    /\ stream.pc = "loop"
    /\ IF Truthy(delta)
       THEN /\ stream.total_tokens < MaxDeltas
            /\ stream' = [stream EXCEPT
                   !.output_text = @ \o delta,
                   !.total_tokens = @ + 1,
                   !.received = @ + 1,
                   !.yields = @ + 1,
                   !.last = <<DeltaEvent(stream.output_text \o delta, stream.total_tokens + 1)>>]
       ELSE /\ stream.empty < MaxEmpty
            /\ stream' = [stream EXCEPT !.empty = @ + 1]
    /\ UNCHANGED <<config, now, ticks, cache, usage_stats, sessions, inbox, jobs, tasks, cthreads, cops, calls>>

\* the response is exhausted: the loop ends
StreamExhausted ==
    /\ stream.pc = "loop"
    /\ stream' = [stream EXCEPT !.pc = "done"]
    /\ UNCHANGED <<config, now, ticks, cache, usage_stats, sessions, inbox, jobs, tasks, cthreads, cops, calls>>

(***************************************************************************)
(* utils/ai_service.py: reset_usage_stats, and the threads of the gateway  *)
(* run one at a time.                                                      *)
(***************************************************************************)
\* reset_usage_stats(): the counters start again from zero; the call is logged
\* with the time it stores as last_reset
reset_usage_stats ==
    /\ Len(calls) < MaxCalls
    /\ usage_stats' = [total_requests |-> 0, total_tokens |-> 0, total_images |-> 0]
    /\ calls' = Append(calls, [fn |-> "reset_usage_stats", last_reset |-> now])
    /\ UNCHANGED <<config, now, ticks, cache, sessions, inbox, jobs, tasks, cthreads, cops, stream>>

\* no thread but the given one is inside a run: thread <<j, "handler">> is inside
\* its run from the acceptance of job j to the end of its generator, thread
\* <<j, "image">> while its provider call is in flight
Alone(thread) ==
    \A i \in JobIds :
        /\ (thread # <<i, "handler">> => jobs[i].hpc \notin {"begin", "stream"})
        /\ (thread # <<i, "image">> => jobs[i].ipc # "call")

(***************************************************************************)
(* Properties of the session gateway (Spec).                               *)
(***************************************************************************)
Last(seq) == seq[Len(seq)]

\* the jobs of start_generation whose generator has run its cache lookup
RanGenerator(j) == jobs[j].kind = "start_generation" /\ jobs[j].yields # <<>>

\* C1: with caching enabled, a text request that finds an unexpired entry under its
\* fingerprint (stored by an earlier identical request, which made exactly one chat
\* call and emitted the streaming sequence) emits exactly the two events of the
\* cached replay, the second carrying the stored text, and makes no chat call;
\* whatever the stream of the first request was, one without a non-empty delta included
C1_CachedReplay ==
    \A j \in JobIds :
        (RanGenerator(j) /\ config.ENABLE_CACHING /\ jobs[j].live_at_lookup # None)
        => /\ jobs[j].yields = <<CachedEvent, CompleteEvent(jobs[j].live_at_lookup)>>
           /\ jobs[j].chat_calls = 0
           /\ \E i \in JobIds \ {j} :
                  /\ jobs[i].stored
                  /\ jobs[i].cache_key = jobs[j].cache_key
                  /\ jobs[i].chat_calls = 1
                  /\ Head(jobs[i].yields) = GeneratingEvent
                  /\ Last(jobs[i].yields) = CompleteEvent(jobs[i].output_text)

\* the fields of a payload that break the rules of the form: the name is required
\* and at most 100 characters, the other three fields have a maximal length
OverLong(data, field, limit) == field \in DOMAIN data /\ Len(data[field]) > limit

ViolatedFields(data) ==
    {f \in {"product_name"} :
        Strip(Get(data, f, <<>>)) = <<>> \/ OverLong(data, f, MAX_PRODUCT_NAME)}
    \cup {f \in {"product_details"} : OverLong(data, f, MAX_PRODUCT_DETAILS)}
    \cup {f \in {"keywords"} : OverLong(data, f, MAX_KEYWORDS)}
    \cup {f \in {"extra_instructions"} : OverLong(data, f, MAX_EXTRA_INSTRUCTIONS)}

FailsValidation(data) == ~ValidationOf[data][1] \/ ViolatedFields(data) # {}

C2_Rejected ==
    \A j \in JobIds :
        (jobs[j].kind = "start_generation" /\ config.api_key_ok /\ FailsValidation(jobs[j].data))
        => /\ Len(jobs[j].events) = 1
           /\ "errors" \in DOMAIN jobs[j].events[1]
           /\ ViolatedFields(jobs[j].data) \subseteq DOMAIN jobs[j].events[1].errors
           /\ DOMAIN jobs[j].events[1].errors # {}
           /\ (Get(jobs[j].data, "product_name", <<>>) = <<>>
                  => "product_name" \in DOMAIN jobs[j].events[1].errors)
           /\ {ev \in inbox[jobs[j].sid] : ev.job = j} = {Progress(j, 1, jobs[j].events[1])}
           /\ jobs[j].hpc = "done" /\ jobs[j].yields = <<>> /\ jobs[j].chat_calls = 0
           /\ jobs[j].ipc = "none" /\ jobs[j].callbacks = <<>> /\ jobs[j].image_calls = 0

C2_Frame ==
    (/\ Len(jobs') = Len(jobs) + 1
     /\ Last(jobs').kind = "start_generation"
     /\ config.api_key_ok
     /\ FailsValidation(Last(jobs').data))
    => cache' = cache /\ usage_stats' = usage_stats

\* C2: a start_generation job whose data fails validation gets exactly one progress
\* event, with an errors entry for every violated field (product_name when the name
\* is empty); no generator and no image thread run for it, no provider call is made,
\* and the step that rejects it leaves the cache and the usage counters unchanged
C2_ValidationFailure == []C2_Rejected /\ [][C2_Frame]_vars

C2_Witness ==
    \E j \in JobIds :
        /\ jobs[j].kind = "start_generation" /\ config.api_key_ok
        /\ ViolatedFields(jobs[j].data) = {"product_name", "product_details"}
        /\ Len(jobs[j].events) = 1
        /\ DOMAIN cache # {} /\ usage_stats.total_requests > 0

\* the positions of the error events among the yields of job j
ErrorYields(j) == {n \in 1..Len(jobs[j].yields) : "error" \in DOMAIN jobs[j].yields[n]}

ErrorKinds ==
    {"connection_error", "rate_limit", "authentication", "quota_exceeded", "invalid_request",
     "model_error", "content_filter", "timeout", "unknown"}

\* C3: when the provider call or a chunk read of a text generation raises, the
\* generator yields exactly one error event and it is its last event: error is true,
\* partial is the buffer accumulated so far, the message and a classified kind are
\* present; no completion event is yielded, the gateway forwards the event and the
\* job ends without anything more (no exception reaches the gateway); a generator
\* that met no failure yields no error event
C3_TerminalError ==
    \A j \in JobIds :
        /\ (jobs[j].raised = <<>> => ErrorYields(j) = {})
        /\ (jobs[j].raised # <<>> =>
               LET ys == jobs[j].yields
                   ev == Last(ys)
               IN  /\ ErrorYields(j) = {Len(ys)}
                   /\ ev.error = TRUE
                   /\ ev.partial = jobs[j].output_text
                   /\ ev.percent = 0
                   /\ ev.data = "Error: " \o ErrorMessage(ev.error_details.error_type)
                   /\ ev.error_details.error_type \in ErrorKinds
                   /\ \A n \in 1..Len(ys) : ys[n].data # "Text generation complete."
                   /\ jobs[j].hpc = "done"
                   /\ Last(jobs[j].events) = ev
                   /\ Progress(j, Len(jobs[j].events), ev) \in inbox[jobs[j].sid])

C3_Witness ==
    \E j \in JobIds :
        /\ jobs[j].raised # <<>>
        /\ jobs[j].output_text # <<>>
        /\ jobs[j].image_toggle
        /\ jobs[j].hpc = "done"

\* C4: an image task that finds an unexpired entry under its fingerprint invokes its
\* callback exactly twice, with the cached-image status at 50% and then with the
\* cached URL at 100%, and makes no provider call
C4_HitCallbacks ==
    \A j \in JobIds :
        (jobs[j].ipc = "done" /\ jobs[j].image_live_at_lookup # None)
        => /\ jobs[j].callbacks =
                  <<CallbackCached, CallbackUrl(jobs[j].image_live_at_lookup)>>
           /\ jobs[j].image_calls = 0

\* the image task of job j runs its cache lookup in this step
ImageLookupStep(j) == jobs[j].ipc = "start" /\ jobs'[j].ipc # "start"

\* C5: when the image task of a job looks up the cache while the entry written by
\* the image task of a job of the other kind (regenerate_image after start_generation,
\* or the reverse) for the same product name is present and unexpired, it ends at
\* once with that URL, without a provider call and without a change of the counters
C5_SharedImageEntry ==
    [][\A i, j \in JobIds :
          (/\ i # j
           /\ jobs[i].kind # jobs[j].kind
           /\ jobs[i].image_stored
           /\ jobs[i].image_arg = jobs[j].image_arg
           /\ jobs[i].image_key \in DOMAIN cache
           /\ now < cache[jobs[i].image_key].expires_at
           /\ ImageLookupStep(j))
          => /\ jobs'[j].ipc = "done"
             /\ jobs'[j].image_calls = 0
             /\ Last(jobs'[j].callbacks) = CallbackUrl(cache[jobs[i].image_key].value)
             /\ usage_stats' = usage_stats]_vars

C5_Witness ==
    \E i, j \in JobIds :
        /\ jobs[i].kind = "start_generation" /\ jobs[j].kind = "regenerate_image"
        /\ jobs[i].image_stored
        /\ jobs[i].data.product_name # jobs[j].data.product_name
        /\ jobs[i].image_arg = jobs[j].image_arg
        /\ jobs[j].ipc = "done"
        /\ jobs[j].image_calls = 0
        /\ Last(jobs[j].callbacks) = Last(jobs[i].callbacks)
        /\ "image_url" \in DOMAIN Last(jobs[j].callbacks)
        /\ usage_stats.total_images = 1

GatewayImageTexts ==
    {"Starting image generation in parallel...",
     "Text generation complete, image generation in progress."}

\* C6: a start_generation job that asks for an image while image generation is
\* disabled runs as a text-only job: no image thread, no image callback, no
\* image_progress event, no image event of the gateway among its progress events,
\* and the gateway emits exactly what the generator yields
C6_SilentDowngrade ==
    \A j \in JobIds :
        (/\ jobs[j].kind = "start_generation"
         /\ Get(jobs[j].data, "generate_image", FALSE)
         /\ ~config.ENABLE_IMAGE_GENERATION)
        => /\ jobs[j].ipc = "none" /\ jobs[j].callbacks = <<>> /\ jobs[j].image_calls = 0
           /\ \A s \in Sessions : \A ev \in inbox[s] : ev.job = j => ev.event = "progress"
           /\ \A n \in 1..Len(jobs[j].events) :
                  /\ ~HasImageKey(jobs[j].events[n])
                  /\ jobs[j].events[n].data \notin GatewayImageTexts
           /\ (ValidationOf[jobs[j].data][1] => jobs[j].events = jobs[j].yields)

C6_Witness ==
    \E j \in JobIds :
        /\ jobs[j].kind = "start_generation"
        /\ Get(jobs[j].data, "generate_image", FALSE)
        /\ ~config.ENABLE_IMAGE_GENERATION
        /\ jobs[j].hpc = "done"
        /\ Len(jobs[j].yields) >= 3
        /\ Last(jobs[j].events).data = "Text generation complete."

\* C7: every progress and image_progress event in the inbox of a session belongs to
\* a job that session submitted
C7_OwnSessionOnly ==
    \A s \in Sessions : \A ev \in inbox[s] : ev.job # 0 => jobs[ev.job].sid = s

C7_Witness ==
    \E i, j \in JobIds :
        /\ jobs[i].sid # jobs[j].sid
        /\ jobs[i].hpc = "stream" /\ jobs[i].ipc = "call"
        /\ jobs[j].ipc = "call"
        /\ \E ev \in inbox[jobs[i].sid] : ev.job = i /\ ev.event = "image_progress"
        /\ \E ev \in inbox[jobs[i].sid] : ev.job = i /\ ev.event = "progress"
        /\ \E ev \in inbox[jobs[j].sid] : ev.job = j /\ ev.event = "image_progress"

(***************************************************************************)
(* Properties of the counters and of the cache under concurrency.          *)
(***************************************************************************)
RECURSIVE CompletedTokens(_)
CompletedTokens(n) ==
    IF n = 0 THEN 0
    ELSE CompletedTokens(n - 1) + (IF tasks[n].completed THEN tasks[n].total_tokens ELSE 0)

\* C8: once all the text and image tasks have finished, total_requests is their
\* number, total_images the number of image tasks and total_tokens the sum of the
\* token counts of the streams that completed
C8_NoLostIncrement ==
    (\A t \in 1..Len(tasks) : tasks[t].pc = "done")
    => /\ usage_stats.total_requests = Len(tasks)
       /\ usage_stats.total_images = Cardinality({t \in 1..Len(tasks) : tasks[t].kind = "image"})
       /\ usage_stats.total_tokens = CompletedTokens(Len(tasks))

\* C9: no get or set raises, and a get removes no entry but the expired one it read
C9_SafeConcurrentAccess ==
    \A t \in 1..Len(cthreads) :
        /\ cthreads[t].pc # "raised"
        /\ (cthreads[t].removed # <<>> => cthreads[t].removed = cthreads[t].entry)

\* whether no set on the key of call n lies between calls m and n
NoSetBetween(m, n) ==
    \A k \in (m + 1)..(n - 1) : ~(cops[k].op = "set" /\ cops[k].key = cops[n].key)

\* C10: a get at a time at or after the expiry time of the entry returns None, equality
\* included; once a get returned None every later get of the key does until the next
\* set on it; a get before the expiry time returns the stored value
C10_ExpiryInclusive ==
    \A n \in 1..Len(cops) :
        cops[n].op = "get" =>
            /\ (cops[n].before # <<>> /\ cops[n].at >= cops[n].before[1].expires_at
                   => cops[n].result = None)
            /\ (cops[n].before # <<>> /\ cops[n].at < cops[n].before[1].expires_at
                   => cops[n].result = cops[n].before[1].value)
            /\ \A m \in 1..(n - 1) :
                   (/\ cops[m].op = "get" /\ cops[m].key = cops[n].key
                    /\ cops[m].result = None /\ NoSetBetween(m, n))
                   => cops[n].result = None

(***************************************************************************)
(* Claims about create_key.                                                *)
(***************************************************************************)
\* the keyword arguments of a call as the dict Python passes: name -> value pairs
ArgSet(call) == { call.kwargs[i] : i \in 1..Len(call.kwargs) }

\* C11: create_key is order-independent: two calls in the same namespace whose
\* parameter sets are field-wise equal, in whatever order the fields are written,
\* return the same key.
C11_OrderIndependent ==
    \A i, j \in 1..Len(calls) :
        (calls[i].ns = calls[j].ns /\ ArgSet(calls[i]) = ArgSet(calls[j]))
            => calls[i].result = calls[j].result

\* two calls with the same fields written in different orders have been made
C11_Witness ==
    \E i, j \in 1..Len(calls) :
        /\ calls[i].ns = calls[j].ns
        /\ calls[i].kwargs # calls[j].kwargs
        /\ ArgSet(calls[i]) = ArgSet(calls[j])
        /\ calls[i].result = calls[j].result

\* C12: create_key is collision-free within a namespace: two calls with the same
\* field names whose parameter sets differ in at least one value return different
\* keys, also for values that hold ':' and '=' or another field's "name=" prefix.
C12_CollisionFree ==
    \A i, j \in 1..Len(calls) :
        (calls[i].ns = calls[j].ns /\ ArgSet(calls[i]) # ArgSet(calls[j]))
            => calls[i].result # calls[j].result

(***************************************************************************)
(* Claims about sanitize_prompt_input.                                     *)
(***************************************************************************)
\* C13: sanitize_prompt_input is idempotent: a call on the result of an earlier call
\* returns its argument unchanged.
C13_Idempotent ==
    \A i, j \in 1..Len(calls) :
        calls[j].text = calls[i].result => calls[j].result = calls[j].text

\* C14: the result of sanitize_prompt_input holds no occurrence, in any letter case, of
\* the phrase 'ignore previous instructions' and no role prefix 'system:', 'user:' or
\* 'assistant:', whatever whitespace separated the words of the phrase in the input.
C14_NoPhraseNoRole ==
    \A i \in 1..Len(calls) :
        /\ ~Contains(Lower(calls[i].result), IGNORE_PHRASE)
        /\ \A n \in 1..Len(ROLE_PREFIXES) : ~Contains(calls[i].result, ROLE_PREFIXES[n])

(***************************************************************************)
(* Claims about handle_openai_error.                                       *)
(***************************************************************************)
\* C17: for every exception whose message contains 'rate limit', whatever else the
\* message contains, handle_openai_error returns the kind rate_limit, with a user
\* message that differs from the messages of the kinds authentication and timeout.
C17_RateLimitKind ==
    \A i \in 1..Len(calls) :
        Contains(Lower(calls[i].e.text), ErrorPatterns.rate_limit) =>
            /\ calls[i].result[2].error_type = "rate_limit"
            /\ calls[i].result[1] \notin {ErrorMessage("authentication"), ErrorMessage("timeout")}

(***************************************************************************)
(* Claims about the chunk loop.                                            *)
(***************************************************************************)
\* the one non-empty delta of the model, n times over
Repeated(delta, n) == <<>> \o [i \in 1..(n * Len(delta)) |-> delta[((i - 1) % Len(delta)) + 1]]

\* C20: in a streamed generation the n-th non-empty delta produces exactly one
\* progress event, whose partial is the concatenation of the first n non-empty deltas
\* and whose percent is min(100, floor(n * 100 / 300)); empty deltas produce no event
\* and do not count as tokens.
C20_DeltaProgress ==
    /\ stream.yields = stream.received
    /\ stream.total_tokens = stream.received
    /\ stream.received > 0 =>
          /\ stream.last[1].partial = Repeated(<<"o", "k">>, stream.received)
          /\ stream.last[1].percent =
                 IF (stream.received * 100) \div 300 > 100 THEN 100
                 ELSE (stream.received * 100) \div 300

(***************************************************************************)
(* Further properties of the session gateway.                              *)
(***************************************************************************)
\* str(e) of the exceptions the provider calls may raise
RawTexts == { e.text : e \in ChatExceptions \cup ImageExceptions }

\* C15: an error event sent to a client carries the user message, the classified
\* error kind and the partial output only: the raw text of the provider exception is
\* in no field of it (error_type, the classified kind, is a literal of the program).
C15_NoRawText ==
    \A s \in Sessions : \A ev \in inbox[s] :
        "error" \in DOMAIN ev.payload =>
            /\ Get(ev.payload, "partial", <<>>) \notin RawTexts
            /\ "error_details" \in DOMAIN ev.payload =>
                   \A f \in DOMAIN ev.payload.error_details \ {"error_type"} :
                       ev.payload.error_details[f] \notin RawTexts

\* C16: while the credential is not configured, start_generation and
\* regenerate_image each answer with exactly one configuration error event
\* (error true, percent 0) and return before validation: no errors map, no generator,
\* no image thread, no provider call, and the cache and the counters stay untouched.
C16_ConfigurationError ==
    ~config.api_key_ok =>
        /\ cache = [k \in {} |-> None]
        /\ usage_stats = [total_requests |-> 0, total_tokens |-> 0, total_images |-> 0]
        /\ \A j \in JobIds :
               /\ Len(jobs[j].events) = 1
               /\ jobs[j].events[1] =
                      (IF jobs[j].kind = "start_generation"
                       THEN ConfigErrorEvent ELSE RegenConfigErrorEvent)
               /\ jobs[j].events[1].error /\ jobs[j].events[1].percent = 0
               /\ "errors" \notin DOMAIN jobs[j].events[1]
               /\ {ev \in inbox[jobs[j].sid] : ev.job = j} =
                      { [event |-> IF jobs[j].kind = "start_generation"
                                   THEN "progress" ELSE "image_progress",
                         job |-> j, n |-> 1, payload |-> jobs[j].events[1]] }
               /\ jobs[j].hpc = "done" /\ jobs[j].yields = <<>> /\ jobs[j].chat_calls = 0
               /\ jobs[j].ipc = "none" /\ jobs[j].callbacks = <<>> /\ jobs[j].image_calls = 0

\* both handlers have rejected a request, the start_generation one for data that
\* would also fail validation
C16_Witness ==
    /\ ~config.api_key_ok
    /\ \E i, j \in JobIds :
           /\ jobs[i].kind = "start_generation" /\ FailsValidation(jobs[i].data)
           /\ Get(jobs[i].data, "generate_image", FALSE)
           /\ jobs[j].kind = "regenerate_image"
           /\ Len(jobs[i].events) = 1 /\ Len(jobs[j].events) = 1

\* the event of app.py:165-169 among the events evs
InjectedIn(evs) ==
    {n \in 1..Len(evs) :
        Get(evs[n], "data", "") = "Text generation complete, image generation in progress."}

\* job j in a step of its handler: the text path completes in it when the generator
\* yields its final event, and the handler injects when it emits the extra event
C19_Step(j) ==
    LET completes == /\ Len(jobs'[j].yields) > Len(jobs[j].yields)
                     /\ Last(jobs'[j].yields).data = "Text generation complete."
        injects == InjectedIn(jobs'[j].events) # InjectedIn(jobs[j].events)
        image_forwarded == jobs[j].callbacks # <<>>
    IN  /\ injects <=> (completes /\ jobs[j].image_toggle /\ ~image_forwarded)
        /\ Cardinality(InjectedIn(jobs'[j].events)) <= 1
        /\ injects => \A n \in 1..Len(jobs[j].yields) : "error" \notin DOMAIN jobs[j].yields[n]

\* C19: the handler injects 'Text generation complete, image generation in progress.'
\* exactly when the text path completes, an image was requested and enabled, and no
\* image_progress event of the job has been forwarded yet; at most once per job and
\* never after a text error event.
C19_InjectExactlyWhen == [][\A j \in JobIds : C19_Step(j)]_vars

\* the session that submitted job j has disconnected
Orphaned(j) == sessions[jobs[j].sid] = "disconnected"

\* an image thread whose session is gone can still take its next step
C18_NotCancelled ==
    \A j \in JobIds :
        Orphaned(j) =>
            /\ jobs[j].ipc = "start" => ENABLED ImgBegin(j)
            /\ jobs[j].ipc = "call" => \A url \in Urls : ENABLED ImgReturn(j, url)

\* a disconnect changes nothing but the session; a step of an image thread whose
\* session is gone calls the provider on a miss, writes the URL it gets to the cache
\* and delivers nothing to any session
C18_Frame ==
    /\ \A s \in Sessions :
           (sessions[s] = "connected" /\ sessions'[s] = "disconnected")
               => UNCHANGED <<jobs, cache, usage_stats, inbox>>
    /\ \A j \in JobIds :
           (Orphaned(j) /\ jobs'[j].callbacks # jobs[j].callbacks) =>
               /\ inbox' = inbox
               /\ (jobs[j].ipc = "start" /\ jobs'[j].image_live_at_lookup = None)
                      => jobs'[j].ipc = "call" /\ jobs'[j].image_calls = 1
               /\ (jobs[j].ipc = "call" /\ "image_url" \in DOMAIN Last(jobs'[j].callbacks))
                      => /\ jobs'[j].ipc = "done"
                         /\ jobs'[j].image_key \in DOMAIN cache'
                         /\ cache'[jobs'[j].image_key].value = Last(jobs'[j].callbacks).image_url

\* C18: a client disconnect does not cancel in-flight work: an image task started
\* before it can still run every step up to its terminal callback, still calls the
\* provider and still writes its URL to the cache, and its callbacks for the dead
\* session are delivered to nobody.
C18_DisconnectKeepsWork == []C18_NotCancelled /\ [][C18_Frame]_vars

\* the image task of a session that disconnected before the terminal callback has
\* stored its URL, and a later job of another session was served from that entry
C18_Witness ==
    \E i, j \in JobIds :
        /\ Orphaned(i) /\ jobs[i].image_stored
        /\ \A ev \in inbox[jobs[i].sid] : ev.job = i => "image_url" \notin DOMAIN ev.payload
        /\ jobs[j].sid # jobs[i].sid /\ jobs[j].ipc = "done" /\ jobs[j].image_calls = 0
        /\ jobs[j].image_live_at_lookup = Last(jobs[i].callbacks).image_url
        /\ Last(jobs[j].callbacks) = Last(jobs[i].callbacks)

(***************************************************************************)
(* Properties of the session gateway (Spec), continued.                    *)
(***************************************************************************)
\* C26: every progress event of the text path the client receives carries data,
\* partial and percent, percent being an integer in 0..100; the first event after
\* a cache miss included
C26_ProgressFields ==
    \A s \in Sessions : \A ev \in inbox[s] :
        ev.event = "progress"
        => /\ {"data", "partial", "percent"} \subseteq DOMAIN ev.payload
           /\ ev.payload.percent \in 0..100

\* C27: no chat call and no image call is made for a start_generation job whose
\* product name is empty after sanitization
C27_NoCallForEmptyName ==
    \A j \in JobIds :
        (/\ jobs[j].kind = "start_generation"
         /\ Len(Get(jobs[j].data, "product_name", <<>>)) <= MAX_PRODUCT_NAME
         /\ sanitize_prompt_input(Get(jobs[j].data, "product_name", <<>>)) = <<>>)
        => jobs[j].chat_calls = 0 /\ jobs[j].image_calls = 0

\* C28: while image generation is disabled by configuration no image call is made
\* and no image_progress event is sent, whatever the clients submit
C28_ImagesDisabled ==
    ~config.ENABLE_IMAGE_GENERATION
    => /\ \A j \in JobIds : jobs[j].image_calls = 0
       /\ \A s \in Sessions : \A ev \in inbox[s] : ev.event # "image_progress"

\* C29: while caching is disabled by configuration the cache is never read and
\* never written: it stays empty, no job looks an entry up, and every job that
\* reaches a provider makes its own call
C29_CachingDisabled ==
    ~config.ENABLE_CACHING
    => /\ DOMAIN cache = {}
       /\ \A j \in JobIds :
              /\ jobs[j].image_key = <<>>
              /\ jobs[j].cache_key = <<>>
              /\ ~jobs[j].stored /\ ~jobs[j].image_stored
              /\ (jobs[j].yields # <<>> => jobs[j].chat_calls = 1)
              /\ (jobs[j].callbacks # <<>> => jobs[j].image_calls = 1)

\* the jobs whose text generation ended in the except clause
Failed(j) == jobs[j].raised # <<>>

C22_CompleteOnly ==
    /\ \A j \in JobIds : Failed(j) => ~jobs[j].stored /\ jobs[j].hpc = "done"
    /\ \A data \in DOMAIN TextCacheKeyOf :
           TextCacheKeyOf[data] \in DOMAIN cache
           => \E i \in JobIds :
                  /\ jobs[i].cache_key = TextCacheKeyOf[data]
                  /\ jobs[i].stored /\ ~Failed(i) /\ jobs[i].hpc = "done"
                  /\ cache[TextCacheKeyOf[data]].value = jobs[i].output_text
                  /\ Last(jobs[i].yields) = CompleteEvent(jobs[i].output_text)

C22_Frame ==
    \A j \in JobIds :
        /\ (~Failed(j) /\ jobs'[j].raised # <<>>)
           => cache' = cache /\ usage_stats'.total_tokens = usage_stats.total_tokens
        /\ (/\ jobs[j].hpc = "begin" /\ jobs'[j].hpc # "begin"
            /\ \E i \in JobIds : Failed(i) /\ jobs[i].cache_key = TextCacheKeyOf[jobs[j].data]
            /\ \A i \in JobIds : jobs[i].cache_key = TextCacheKeyOf[jobs[j].data] => ~jobs[i].stored)
           => /\ jobs'[j].chat_calls = 1
              /\ Head(jobs'[j].yields) = GeneratingEvent

\* C22: a text generation that fails writes nothing: the step of the except clause
\* leaves the cache and total_tokens unchanged, a failed job has stored nothing,
\* every value under a product_description key is the whole buffer of a job whose
\* stream ran to exhaustion, and a request whose fingerprint has only been failed on
\* misses the cache and calls the provider
C22_FailureWritesNothing == []C22_CompleteOnly /\ [][C22_Frame]_vars

C22_Witness ==
    \E i, j \in JobIds :
        /\ Failed(i) /\ jobs[i].output_text # <<>>
        /\ jobs[j].cache_key = jobs[i].cache_key /\ jobs[j].cache_key # <<>>
        /\ jobs[j].stored /\ jobs[j].chat_calls = 1
        /\ cache[jobs[j].cache_key].value = jobs[j].output_text

\* the positions of the terminal callbacks among the callbacks of job j
TerminalCallbacks(j) == {n \in 1..Len(jobs[j].callbacks) : jobs[j].callbacks[n].percent = 100}

C24_OneTerminal ==
    \A j \in JobIds :
        /\ TerminalCallbacks(j) \subseteq {Len(jobs[j].callbacks)}
        /\ jobs[j].image_calls <= 1
        /\ (jobs[j].ipc = "done" => TerminalCallbacks(j) # {})
        /\ (jobs[j].ipc \in {"start", "call"} => TerminalCallbacks(j) = {})
        /\ \A n \in TerminalCallbacks(j) :
               LET update == jobs[j].callbacks[n]
               IN  \/ DOMAIN update = {"percent", "image_url"}
                   \/ /\ DOMAIN update = {"percent", "error", "status", "error_details"}
                      /\ update.error
                      /\ jobs[j].image_calls = 1 /\ ~jobs[j].image_stored

C24_Frame ==
    \A j \in JobIds :
        (Len(jobs'[j].callbacks) > Len(jobs[j].callbacks) /\ "error" \in DOMAIN Last(jobs'[j].callbacks))
        => cache' = cache /\ jobs'[j].ipc = "done"

\* C24: an image thread sends at most one terminal callback, as its last one, and has
\* sent it when it ends; the terminal callback carries either the URL or the error
\* fields; the thread calls the provider at most once, and the step that fails sends
\* the error callback and leaves the cache unchanged
C24_TerminalCallback == []C24_OneTerminal /\ [][C24_Frame]_vars

C24_Witness ==
    \E i, j \in JobIds :
        /\ jobs[i].ipc = "done" /\ "error" \in DOMAIN Last(jobs[i].callbacks)
        /\ jobs[j].ipc = "done" /\ "image_url" \in DOMAIN Last(jobs[j].callbacks)
        /\ jobs[j].image_key = jobs[i].image_key

\* what the handler has emitted for a job that passed the checks, given what the
\* generator has yielded
TextEvents(j) ==
    (IF jobs[j].image_toggle THEN <<ImageStartedEvent>> ELSE <<>>)
        \o ForwardedAll(jobs[j].yields, jobs[j].image_toggle)

C25_Concurrent ==
    \A j \in JobIds :
        jobs[j].kind = "start_generation"
        => /\ (jobs[j].image_toggle <=> jobs[j].ipc # "none")
           /\ (jobs[j].callbacks # <<>>
                  => /\ jobs[j].events # <<>> /\ jobs[j].events[1] = ImageStartedEvent
                     /\ \A s \in Sessions :
                            (\E ev \in inbox[s] : ev.event = "image_progress" /\ ev.job = j)
                            => Progress(j, 1, ImageStartedEvent) \in inbox[s])
           /\ (jobs[j].hpc # "done" \/ jobs[j].yields # <<>> => jobs[j].events = TextEvents(j))
           /\ (jobs[j].hpc = "begin" => ENABLED GenBegin(j))
           /\ (jobs[j].hpc = "stream" /\ jobs[j].chunks < MaxChunks
                  => \A delta \in Deltas : ENABLED GenChunk(j, delta))
           /\ (jobs[j].hpc = "stream" => ENABLED GenExhausted(j))
           /\ (jobs[j].ipc = "start" => ENABLED ImgBegin(j))
           /\ (jobs[j].ipc = "call" => \A url \in Urls : ENABLED ImgReturn(j, url))

C25_Frame ==
    \A j \in JobIds :
        /\ jobs'[j].callbacks # jobs[j].callbacks
           => \A i \in JobIds : jobs'[i].events = jobs[i].events /\ jobs'[i].hpc = jobs[i].hpc
        /\ jobs'[j].events # jobs[j].events
           => \A i \in JobIds : jobs'[i].callbacks = jobs[i].callbacks /\ jobs'[i].ipc = jobs[i].ipc

\* C25: the image thread of a job exists from the step in which the handler accepts
\* the job, before the generator has yielded anything; the 'image generation started'
\* event is in the client's inbox before any image_progress event of the job; the
\* next step of the text path is enabled whatever the image thread is doing and the
\* next step of the image thread whatever the text path is doing; the events of the
\* text path are determined by what the generator yields, and no step of one thread
\* changes the events or the position of the other
C25_ImageInParallel == []C25_Concurrent /\ [][C25_Frame]_vars

C25_Witness ==
    \E i, j \in JobIds :
        /\ jobs[i].kind = "start_generation" /\ jobs[j].kind = "start_generation"
        /\ jobs[i].hpc = "done" /\ jobs[i].total_tokens > 0 /\ jobs[i].ipc = "call"
        /\ jobs[j].ipc = "done" /\ jobs[j].hpc = "stream" /\ jobs[j].total_tokens > 0

(***************************************************************************)
(* Properties of the threads run statement by statement (SpecSteps).       *)
(***************************************************************************)
\* the positions among the yields of job j of the events with this data
YieldsOf(j, data) == {n \in 1..Len(jobs[j].yields) : jobs[j].yields[n].data = data}

C21_Exhausted ==
    \A j \in JobIds :
        jobs[j].chat_calls = 1
        => /\ (jobs[j].hpc \in {"stream", "set"} => ~jobs[j].stored)
           /\ (jobs[j].hpc = "final" => jobs[j].stored = config.ENABLE_CACHING)
           /\ (jobs[j].hpc # "done" => YieldsOf(j, "Text generation complete.") = {})
           /\ (YieldsOf(j, "Text generation complete.") # {}
                  => /\ YieldsOf(j, "Text generation complete.") = {Len(jobs[j].yields)}
                     /\ Last(jobs[j].yields) = CompleteEvent(jobs[j].output_text)
                     /\ jobs[j].stored = config.ENABLE_CACHING)
           /\ \A s \in Sessions : \A ev \in inbox[s] :
                  (/\ ev.event = "progress" /\ ev.job = j
                   /\ ev.payload.data = "Text generation complete.")
                  => /\ jobs[j].stored = config.ENABLE_CACHING
                     /\ (config.ENABLE_CACHING => jobs[j].cache_key \in DOMAIN cache)
                     /\ ev.payload = CompleteEvent(jobs[j].output_text)

C21_Step ==
    \A j \in JobIds :
        /\ (jobs[j].hpc = "stream" /\ jobs'[j].hpc # "stream" /\ jobs'[j].raised = <<>>)
           => /\ jobs'[j].hpc = "set"
              /\ usage_stats' = [usage_stats EXCEPT !.total_tokens =
                     @ + Cardinality(YieldsOf(j, "Generating description..."))]
              /\ cache' = cache /\ jobs'[j].yields = jobs[j].yields
        /\ (jobs[j].hpc = "set" /\ jobs'[j].hpc # "set")
           => /\ jobs'[j].hpc = "final"
              /\ usage_stats' = usage_stats /\ jobs'[j].yields = jobs[j].yields
              /\ IF config.ENABLE_CACHING
                 THEN /\ jobs[j].cache_key = TextCacheKeyOf[jobs[j].data]
                      /\ jobs[j].cache_key \in DOMAIN cache'
                      /\ cache'[jobs[j].cache_key].value = jobs[j].output_text
                      /\ \A k \in DOMAIN cache' \ {jobs[j].cache_key} : k \in DOMAIN cache /\ cache'[k] = cache[k]
                 ELSE cache' = cache
        /\ (jobs[j].hpc = "final" /\ jobs'[j].hpc # "final")
           => /\ jobs'[j].hpc = "done"
              /\ usage_stats' = usage_stats /\ cache' = cache
              /\ jobs'[j].yields = Append(jobs[j].yields, CompleteEvent(jobs[j].output_text))

StatusCallbacks == <<Callback10, Callback25, Callback50>>

\* the image threads that found no entry at their cache check
ImageMiss(j) ==
    \/ jobs[j].ipc \in {"cb25", "cb50", "count", "call", "set", "final"}
    \/ jobs[j].ipc = "done" /\ jobs[j].callbacks[2] # CallbackCached

C23_Order ==
    \A j \in JobIds :
        (jobs[j].ipc # "none" /\ ImageMiss(j))
        => /\ (jobs[j].ipc = "cb25" => jobs[j].callbacks = SubSeq(StatusCallbacks, 1, 1))
           /\ (jobs[j].ipc = "cb50" => jobs[j].callbacks = SubSeq(StatusCallbacks, 1, 2))
           /\ (jobs[j].ipc \in {"count", "call", "set", "final"} => jobs[j].callbacks = StatusCallbacks)
           /\ (jobs[j].ipc \in {"cb25", "cb50", "count"}
                  => jobs[j].image_counted = 0 /\ jobs[j].image_calls = 0)
           /\ (jobs[j].ipc \in {"call", "set", "final", "done"}
                  => jobs[j].image_counted = 1 /\ jobs[j].image_calls = 1)
           /\ (jobs[j].ipc \in {"cb25", "cb50", "count", "call"} => jobs[j].image_url = None)
           /\ (jobs[j].ipc \in {"cb25", "cb50", "count", "call", "set"} => ~jobs[j].image_stored)
           /\ (jobs[j].ipc = "set" => jobs[j].image_url \in Urls)
           /\ (jobs[j].ipc = "final" => jobs[j].image_stored)
           /\ (jobs[j].ipc = "done"
                  => \/ /\ jobs[j].callbacks = Append(StatusCallbacks, CallbackUrl(jobs[j].image_url))
                        /\ jobs[j].image_stored
                     \/ /\ SubSeq(jobs[j].callbacks, 1, 3) = StatusCallbacks
                        /\ Len(jobs[j].callbacks) = 4
                        /\ "error" \in DOMAIN jobs[j].callbacks[4]
                        /\ ~jobs[j].image_stored)
           /\ \A s \in Sessions : \A ev \in inbox[s] :
                  (ev.event = "image_progress" /\ ev.job = j /\ "image_url" \in DOMAIN ev.payload)
                  => jobs[j].image_stored /\ jobs[j].image_key \in DOMAIN cache

C23_Step ==
    \A j \in JobIds :
        /\ (jobs[j].ipc = "count" /\ jobs'[j].ipc # "count")
           => /\ jobs'[j].ipc = "call"
              /\ usage_stats' = [usage_stats EXCEPT !.total_images = @ + 1, !.total_requests = @ + 1]
              /\ cache' = cache /\ inbox' = inbox
        /\ (jobs[j].ipc = "call" /\ jobs'[j].ipc # "call")
           => /\ jobs'[j].ipc \in {"set", "done"}
              /\ usage_stats' = usage_stats /\ cache' = cache
        /\ (jobs[j].ipc = "set" /\ jobs'[j].ipc # "set")
           => /\ jobs'[j].ipc = "final"
              /\ usage_stats' = usage_stats /\ inbox' = inbox
              /\ cache'[jobs[j].image_key].value = jobs[j].image_url
        /\ (jobs[j].ipc = "final" /\ jobs'[j].ipc # "final")
           => /\ jobs'[j].ipc = "done"
              /\ usage_stats' = usage_stats /\ cache' = cache
              /\ jobs[j].image_key \in DOMAIN cache

TerminalYields(j) ==
    {n \in 1..Len(jobs[j].yields) :
        \/ "error" \in DOMAIN jobs[j].yields[n]
        \/ /\ jobs[j].yields[n].data = "Text generation complete."
           /\ jobs[j].yields[n].percent = 100}

\* the positions of the yields of job j that carry a percent
PercentYields(j) == {n \in 1..Len(jobs[j].yields) : "percent" \in DOMAIN jobs[j].yields[n]}

C30_OneTerminal ==
    /\ \A n \in 1..MaxDeltas : PercentOf[n] <= PercentOf[n + 1] /\ PercentOf[n + 1] <= 100
    /\ \A j \in JobIds :
           /\ TerminalYields(j) \subseteq {Len(jobs[j].yields)}
           /\ (jobs[j].hpc \in {"begin", "stream"} => TerminalYields(j) = {})
           /\ (jobs[j].hpc = "done" /\ config.api_key_ok /\ ValidationOf[jobs[j].data][1]
                  => TerminalYields(j) # {})
           /\ (jobs[j].hpc = "done" /\ ~Failed(j) /\ jobs[j].yields # <<>>
                  => /\ Last(jobs[j].yields).percent = 100
                     /\ \A m, n \in PercentYields(j) :
                            m <= n => jobs[j].yields[m].percent <= jobs[j].yields[n].percent)

\* C30: every run of generate_product_description on a finite stream ends, and when
\* it has ended its last event is its only terminal event, the completion event at
\* 100% or an error event; in a run without error the percent values of the events
\* that carry one never decrease and end at 100
C30_GeneratorTerminates ==
    /\ []C30_OneTerminal
    /\ \A j \in 1..MaxJobs :
           (j \in JobIds /\ jobs[j].hpc = "begin") ~> (j \in JobIds /\ jobs[j].hpc = "done")

C30_Witness ==
    \E i, j \in JobIds :
        /\ jobs[i].hpc = "done" /\ jobs[i].chat_calls = 1 /\ ~Failed(i)
        /\ Len(jobs[i].yields) = 3 /\ PercentYields(i) = {2, 3}
        /\ jobs[j].hpc = "done" /\ Failed(j) /\ jobs[j].output_text # <<>>

(***************************************************************************)
(* Properties of the threads run one at a time (SpecSequential).           *)
(***************************************************************************)
\* the provider calls of the jobs js: chat calls, image calls
RECURSIVE ChatCalls(_)
ChatCalls(js) == IF js = <<>> THEN 0 ELSE Head(js).chat_calls + ChatCalls(Tail(js))
RECURSIVE ImageCalls(_)
ImageCalls(js) == IF js = <<>> THEN 0 ELSE Head(js).image_calls + ImageCalls(Tail(js))

C31_Counted ==
    /\ calls = <<>>
       => /\ usage_stats.total_requests = ChatCalls(jobs) + ImageCalls(jobs)
          /\ usage_stats.total_images = ImageCalls(jobs)
    /\ \A j \in JobIds :
           /\ jobs[j].chat_calls = (IF jobs[j].yields # <<>> /\ Head(jobs[j].yields) = GeneratingEvent
                                    THEN 1 ELSE 0)
           /\ jobs[j].image_calls = (IF Len(jobs[j].callbacks) >= 2 /\ jobs[j].callbacks[2] = Callback25
                                     THEN 1 ELSE 0)

C31_Step ==
    /\ calls' = calls
       => /\ usage_stats'.total_requests >= usage_stats.total_requests
          /\ usage_stats'.total_images >= usage_stats.total_images
          /\ usage_stats'.total_tokens >= usage_stats.total_tokens
    /\ usage_stats'.total_requests - usage_stats.total_requests
           = IF calls' = calls
             THEN (ChatCalls(jobs') - ChatCalls(jobs)) + (ImageCalls(jobs') - ImageCalls(jobs))
             ELSE 0 - usage_stats.total_requests
    /\ usage_stats'.total_images - usage_stats.total_images
           = IF calls' = calls
             THEN ImageCalls(jobs') - ImageCalls(jobs)
             ELSE 0 - usage_stats.total_images
    /\ \A j \in JobIds :
           (\/ jobs'[j].raised # jobs[j].raised
            \/ (Len(jobs'[j].callbacks) > Len(jobs[j].callbacks) /\ jobs[j].ipc = "call"))
           => usage_stats' = usage_stats

\* C31: when the threads run one at a time and reset_usage_stats has not been
\* called, total_requests is the number of chat and image calls attempted and
\* total_images the number of image calls attempted; a run makes one call, and is
\* counted once, exactly when it misses the cache, whether the call then succeeds or
\* fails; replays, rejected jobs and configuration errors change no counter, and no
\* counter decreases in a step other than reset_usage_stats
C31_CountersMatchCalls == []C31_Counted /\ [][C31_Step]_vars

C31_Witness ==
    \E i, j \in JobIds :
        /\ calls = <<>>
        /\ Failed(i) /\ jobs[i].ipc = "done" /\ "error" \in DOMAIN Last(jobs[i].callbacks)
        /\ jobs[j].hpc = "done" /\ jobs[j].yields = <<>> /\ jobs[j].events # <<>>
        /\ usage_stats.total_requests = 2 /\ usage_stats.total_images = 1

(***************************************************************************)
(* Specifications.                                                         *)
(***************************************************************************)
AllOn == [api_key_ok |-> TRUE, ENABLE_IMAGE_GENERATION |-> TRUE, ENABLE_CACHING |-> TRUE]

\* the configurations of the environment the model starts from
Configs ==
    { AllOn,
      [AllOn EXCEPT !.ENABLE_IMAGE_GENERATION = FALSE],
      [AllOn EXCEPT !.ENABLE_CACHING = FALSE],
      [AllOn EXCEPT !.api_key_ok = FALSE] }

\* the empty dict
EmptyCache == [k \in {} |-> None]

InitShared ==
    /\ now = 0
    /\ ticks = 0
    /\ cache = EmptyCache
    /\ usage_stats = [total_requests |-> 0, total_tokens |-> 0, total_images |-> 0]
    /\ jobs = <<>>
    /\ tasks = <<>>
    /\ cthreads = <<>>
    /\ cops = <<>>
    /\ calls = <<>>
    /\ stream = NoStream

\* the process after start-up, before any client has connected
Init ==
    /\ InitShared
    /\ config \in Configs
    /\ sessions = [s \in Sessions |-> "new"]
    /\ inbox = [s \in Sessions |-> {}]

Next ==
    \/ \E s \in Sessions : handle_connect(s)
    \/ \E d \in TickSteps : Tick(d)
    \/ \E s \in Sessions, data \in GenInputs : handle_generation(s, data)
    \/ \E s \in Sessions, data \in RegenInputs : handle_regenerate_image(s, data)
    \/ \E j \in JobIds : GenBegin(j)
    \/ \E j \in JobIds, delta \in Deltas : GenChunk(j, delta)
    \/ \E j \in JobIds, e \in ChatExceptions : GenError(j, e)
    \/ \E j \in JobIds : GenExhausted(j)
    \/ \E j \in JobIds : ImgBegin(j)
    \/ \E j \in JobIds, url \in Urls : ImgReturn(j, url)
    \/ \E j \in JobIds, e \in ImageExceptions : ImgError(j, e)

Spec == Init /\ [][Next]_vars

\* the process with no client: only the threads of the study run
InitStudy ==
    /\ InitShared
    /\ config = AllOn
    /\ sessions = [s \in Sessions |-> "new"]
    /\ inbox = [s \in Sessions |-> {}]

SpecCounters ==
    InitStudy /\
    [][
           \/ \E kind \in TaskKinds : StartTask(kind)
           \/ \E t \in 1..Len(tasks) : CounterLoad(t)
           \/ \E t \in 1..Len(tasks) : CounterStore(t)
           \/ \E t \in 1..Len(tasks), n \in 0..MaxChunks : TaskStream(t, n)
           \/ \E t \in 1..Len(tasks) : TaskStreamError(t)
    ]_vars

SpecCache ==
    InitStudy /\
    [][
           \/ \E d \in TickSteps : Tick(d)
           \/ StartGet
           \/ \E v \in Values : StartSet(v)
           \/ \E t \in 1..Len(cthreads) : SetStore(t)
           \/ \E t \in 1..Len(cthreads) : GetContains(t)
           \/ \E t \in 1..Len(cthreads) : GetRead(t)
           \/ \E t \in 1..Len(cthreads) : GetCompare(t)
           \/ \E t \in 1..Len(cthreads) : GetDel(t)
    ]_vars

SpecCacheOps ==
    InitStudy /\
    [][
           \/ \E d \in ElapseSteps : Elapse(d)
           \/ \E key \in Keys, value \in Values : OpSet(key, value)
           \/ \E key \in Keys : OpGet(key)
    ]_vars

\* create_key called on the keyword arguments of the study
SpecKeys == InitStudy /\ [][\E call \in KeyCalls : CallCreateKey(call[1], call[2])]_vars

\* sanitize_prompt_input called on a text of the study, then on the result of the last call
SpecSanitize ==
    InitStudy /\
    [][
           \/ \E text \in SanitizeInputs : calls = <<>> /\ CallSanitize(text)
           \/ calls # <<>> /\ CallSanitize(calls[Len(calls)].result)
    ]_vars

\* handle_openai_error called on the exceptions of the study
SpecErrors == InitStudy /\ [][\E e \in ErrorInputs : CallHandleError(e)]_vars

\* one run of the chunk loop
SpecStream ==
    InitStudy /\
    [][
           \/ StreamOpen
           \/ \E delta \in Deltas : StreamChunk(delta)
           \/ StreamExhausted
    ]_vars

\* the gateway with every feature on, clients that ask for images and may disconnect
SpecSessions ==
    InitStudy /\
    [][
           \/ \E s \in Sessions : handle_connect(s)
           \/ \E s \in Sessions : handle_disconnect(s)
           \/ \E s \in Sessions, data \in {d \in GenInputs : d.product_name = Mug /\ d.generate_image} :
                  handle_generation(s, data)
           \/ \E s \in Sessions, data \in {d \in RegenInputs : d.product_name = Mug} :
                  handle_regenerate_image(s, data)
           \/ \E j \in JobIds : GenBegin(j)
           \/ \E j \in JobIds, delta \in Deltas : GenChunk(j, delta)
           \/ \E j \in JobIds, e \in ChatExceptions : GenError(j, e)
           \/ \E j \in JobIds : GenExhausted(j)
           \/ \E j \in JobIds : ImgBegin(j)
           \/ \E j \in JobIds, url \in Urls : ImgReturn(j, url)
           \/ \E j \in JobIds, e \in ImageExceptions : ImgError(j, e)
    ]_vars

\* the gateway with the end of the generator and the image thread run statement by
\* statement, for clients that ask for a mug with and without image
SpecSteps ==
    /\ Init
    /\ [][
           \/ \E s \in Sessions : handle_connect(s)
           \/ \E s \in Sessions, data \in {d \in GenInputs : d.product_name = Mug} :
                  handle_generation(s, data)
           \/ \E s \in Sessions, data \in {d \in RegenInputs : d.product_name = Mug} :
                  handle_regenerate_image(s, data)
           \/ \E j \in JobIds : GenBegin(j)
           \/ \E j \in JobIds, delta \in Deltas : GenChunk(j, delta)
           \/ \E j \in JobIds, e \in ChatExceptions : GenError(j, e)
           \/ \E j \in JobIds : GenAddTokens(j)
           \/ \E j \in JobIds : GenCacheSet(j)
           \/ \E j \in JobIds : GenFinalYield(j)
           \/ \E j \in JobIds : ImgFirstCallback(j)
           \/ \E j \in JobIds : ImgLookup(j)
           \/ \E j \in JobIds : ImgStatusCallback(j)
           \/ \E j \in JobIds : ImgCount(j)
           \/ \E j \in JobIds, url \in Urls : ImgCallReturn(j, url)
           \/ \E j \in JobIds, e \in ImageExceptions : ImgError(j, e)
           \/ \E j \in JobIds : ImgCacheSet(j)
           \/ \E j \in JobIds : ImgFinalCallback(j)
       ]_vars

\* the text path alone, with handler threads that keep running: a thread that can
\* take a step of generate_product_description eventually takes one, and the
\* provider's stream has at most MaxChunks chunks
SpecGenerator ==
    /\ Init
    /\ [][
           \/ \E s \in Sessions : handle_connect(s)
           \/ \E d \in TickSteps : Tick(d)
           \/ \E s \in Sessions, data \in {d \in GenInputs : ~d.generate_image} :
                  handle_generation(s, data)
           \/ \E j \in JobIds : GenBegin(j)
           \/ \E j \in JobIds, delta \in Deltas : GenChunk(j, delta)
           \/ \E j \in JobIds, e \in ChatExceptions : GenError(j, e)
           \/ \E j \in JobIds : GenExhausted(j)
       ]_vars
    /\ \A j \in 1..MaxJobs :
           WF_vars(/\ j \in JobIds
                   /\ \/ GenBegin(j)
                      \/ \E delta \in Deltas : GenChunk(j, delta)
                      \/ \E e \in ChatExceptions : GenError(j, e)
                      \/ GenExhausted(j))

\* the gateway with its threads run one at a time, each to its end, and
\* reset_usage_stats called between runs, for clients that ask for a mug, with and
\* without image, or send no name
SpecSequential ==
    /\ Init
    /\ [][
           \/ \E s \in Sessions : handle_connect(s)
           \/ \E d \in TickSteps : Tick(d)
           \/ Alone(<<>>) /\ reset_usage_stats
           \/ \E s \in Sessions, data \in {d \in GenInputs : d.product_name \in {Mug, <<>>}} :
                  Alone(<<>>) /\ handle_generation(s, data)
           \/ \E s \in Sessions, data \in {d \in RegenInputs : d.product_name = Mug} :
                  Alone(<<>>) /\ handle_regenerate_image(s, data)
           \/ \E j \in JobIds : Alone(<<j, "handler">>) /\ GenBegin(j)
           \/ \E j \in JobIds, delta \in Deltas : Alone(<<j, "handler">>) /\ GenChunk(j, delta)
           \/ \E j \in JobIds, e \in ChatExceptions : Alone(<<j, "handler">>) /\ GenError(j, e)
           \/ \E j \in JobIds : Alone(<<j, "handler">>) /\ GenExhausted(j)
           \/ \E j \in JobIds : Alone(<<j, "image">>) /\ ImgBegin(j)
           \/ \E j \in JobIds, url \in Urls : Alone(<<j, "image">>) /\ ImgReturn(j, url)
           \/ \E j \in JobIds, e \in ImageExceptions : Alone(<<j, "image">>) /\ ImgError(j, e)
       ]_vars
====
